---- MODULE Spec2Model ----
(***************************************************************************)
(* NativeMessagingClient (native-messaging-client.ts) on top of            *)
(* IpcSocketService (ipc-socket.service.ts), as one event-loop state       *)
(* machine.                                                                *)
(*                                                                         *)
(* Execution model of the JavaScript event loop:                           *)
(*  - API steps    : synchronous calls made by the caller (callCommand,    *)
(*                   connect, disconnect);                                 *)
(*  - micro steps  : continuations of settled promises (after an await);   *)
(*  - macro steps  : timers and socket events; they run only when no       *)
(*                   continuation is ready;                                *)
(*  - frame steps  : one frame of a data chunk handed to handleMessage;    *)
(*                   the frames of one chunk are handled back to back,     *)
(*                   before any continuation runs.                         *)
(***************************************************************************)
EXTENDS Integers, FiniteSets, Sequences, TLC

\* ------------------------------------------------------------------ bounds
MaxCalls == 2
MaxSockets == 1
MaxSecrets == 1
MaxRekeySecrets == 2
MaxReconnects == 1
MaxFrames == 2
MaxPayload == 2

\* ------------------------------------------------------- program constants
MESSAGE_VALID_TIMEOUT == 10000
DEFAULT_TIMEOUT == 10000
USER_INTERACTION_TIMEOUT == 60000
ENCRYPTION_TYPE == 2

\* ----------------------------------------------------------------- domains
Calls == 0 .. (MaxCalls - 1)
Socks == 0 .. (MaxSockets + MaxReconnects - 1)
NoSecret == 0
NoSock == -1
NoCall == -1
AppOwner == -2
NoId == -1
MyAppId == "test-app-id"
OtherAppId == "other-app-id"
AppIds == {MyAppId, OtherAppId}

\* error messages of the rejections
ErrDisconnected == "Disconnected from Desktop app"
ErrTimedOut == "Message timed out waiting for Desktop app response"
ErrInvalidated == "Encryption channel invalidated by Desktop app"
ErrWrongUser == "Account mismatch: CLI and Desktop app are logged into different accounts"
ErrSetupTimedOut == "Secure channel setup timed out"
ErrNotConnected == "Not connected to desktop app"
ErrConnectFailed == "Failed to connect to desktop app (is the app running?)"
ErrTypeError == "TypeError"
NoErr == ""

\* outcomes of handleMessage: debug lines and thrown errors
LogNone == ""
LogOtherApp == "ignored: message for another app"
LogNoSecret == "No sharedSecret in message"
LogNoChannel == "No secureChannel setup"
LogTooOld == "Message too old, ignoring"
LogNoCallback == "No callback found for messageId"
ThrownIntegrity == "Message integrity check failed"
ThrownDecrypt == "privateDecrypt failed"
Thrown == {ThrownIntegrity, ThrownDecrypt}

VARIABLES
  connected,      \* NativeMessagingClient.connected
  connecting,     \* NativeMessagingClient.connecting
  secureChannel,  \* NativeMessagingClient.secureChannel
  messageId,      \* NativeMessagingClient.messageId (next id)
  callbacks,      \* NativeMessagingClient.callbacks : messageId -> call
  socket,         \* IpcSocketService.socket (reference, NoSock = null)
  sock,           \* state of every net.Socket created so far
  messageHandler, \* IpcSocketService.messageHandler registered
  disconnectHandler, \* IpcSocketService.disconnectHandler registered
  conn,           \* the connect() invocation awaiting ipcSocket.connect()
  numCalls,       \* number of callCommand invocations so far
  pc,             \* position of each callCommand invocation
  mid,            \* messageId of each callCommand invocation
  timer,          \* deadline timer of each call armed
  hs,             \* promise of the secureCommunication() of each call
  hsErr,          \* rejection reason of that promise
  hsTimer,        \* key exchange timer of that handshake armed
  env,            \* secret under which the call's message was encrypted
  outcome,        \* per call: resolver/rejecter invocations, removals
  sent,           \* messages written to the transport
  inChunk,        \* processIncomingData is inside its while loop
  frame,          \* the message handled by the last step, if it handled one
  log,            \* what handleMessage did with it: the debug line it
                  \* printed or the error it threw
  budget,         \* the scenario: how many calls the application makes and
                  \* how many sockets it gets to create
  host,           \* the scenario: the platform and environment
  stream,         \* the scenario: the frames the peer writes
  wire,           \* bytes of the stream that have not arrived yet
  messageBuffer,  \* IpcSocketService.messageBuffer
  delivered,      \* the values messageHandler was invoked with, in order
  dataJson,       \* the file data.json of bw
  ret,            \* what the last operation on the storage returned or threw
  written,        \* per user: the user key and session key last stored
  given,          \* the scenario: the user key, session key and random
                  \* bytes the storage is used with
  args,           \* the scenario: the arguments main() is called with
  processEnv,     \* process.env: BW_SESSION, BW_NOINTERACTION, BW_QUIET
  mainPc,         \* position of main(), "off" when main() is not run
  attempt,        \* what attemptBiometricUnlock() returned
  bw,             \* the bw process spawned by executeBw
  stdout,         \* the lines written by writeLn
  lifecycle,      \* per net.Socket: whether its "connect" event fired, and
                  \* how often its "close" event called the disconnect
                  \* handler
  answer          \* what the two awaits of attemptBiometricUnlock() returned:
                  \* the status and the user key, once they returned a value

vars == << connected, connecting, secureChannel, messageId, callbacks, socket,
           sock, messageHandler, disconnectHandler, conn, numCalls, pc, mid,
           timer, hs, hsErr, hsTimer, env, outcome, sent, inChunk, frame,
           log, budget, host, stream, wire, messageBuffer, delivered,
           dataJson, ret, written, given, args, processEnv, mainPc, attempt,
           bw, stdout, lifecycle, answer >>

\* the state of main()
cli == << args, processEnv, mainPc, attempt, bw, stdout >>

\* what no step of the client changes
scenario == << budget, host, stream, wire, messageBuffer, delivered,
              dataJson, ret, written, given, args, processEnv, mainPc,
              attempt, bw, stdout >>

\* what no step of the client but a socket event changes
others == << scenario, lifecycle, answer >>

\* the fields of NativeMessagingClient, the sockets and the calls
client == << connected, connecting, secureChannel, messageId, callbacks,
             socket, sock, disconnectHandler, conn, numCalls, pc, mid, timer,
             hs, hsErr, hsTimer, env, outcome, sent, inChunk, frame, log >>

\* ------------------------------------------------------------------ values
NullChannel == [present |-> FALSE, hs |-> NoCall, secret |-> NoSecret]

IdleConn ==
  [state |-> "idle", owner |-> NoCall, s |-> NoSock, tried |-> << >>]

NoPayload == [kind |-> "none", secret |-> NoSecret, tampered |-> FALSE,
              hasTs |-> FALSE, skew |-> 0, messageId |-> NoId]

NoOutcome == [resolved |-> 0, rejected |-> 0, removed |-> 0, err |-> NoErr,
              by |-> NoPayload]

Abs(x) == IF x < 0 THEN -x ELSE x

NoFrame == [command |-> "", appId |-> "", hasSecret |-> FALSE,
            forKey |-> NoCall, secret |-> NoSecret, message |-> NoPayload]

\* Map.set / Map.delete / Map.has on the callbacks map
MapSet(m, k, v) == [x \in (DOMAIN m) \cup {k} |-> IF x = k THEN v ELSE m[x]]

MapDelete(m, k) == [x \in (DOMAIN m) \ {k} |-> m[x]]

MapHas(m, k) == k \in DOMAIN m

EmptyMap == [x \in {} |-> NoCall]

MapValues(m) == {m[x] : x \in DOMAIN m}

\* number of entries of the map whose callback belongs to call c
Entries(m, c) == Cardinality({x \in DOMAIN m : m[x] = c})

\* ------------------------------------------------------------------- Init
\* the application makes up to MaxCalls calls on a client that connects
\* MaxSockets times
Calling == [calls |-> MaxCalls, sockets |-> MaxSockets,
            secrets |-> MaxSecrets]

\* the application makes one call on a client that may connect again
Reconnecting == [calls |-> 1, sockets |-> MaxSockets + MaxReconnects,
                 secrets |-> MaxSecrets]

\* the application makes one call on a client that connects once, to a peer
\* that has MaxRekeySecrets shared secrets to send
Rekeying == [calls |-> 1, sockets |-> MaxSockets,
             secrets |-> MaxRekeySecrets]

InitClient ==
  /\ connected = FALSE
  /\ connecting = FALSE
  /\ secureChannel = NullChannel
  /\ messageId = 0
  /\ callbacks = EmptyMap
  /\ socket = NoSock
  /\ sock = [s \in Socks |-> "unused"]
  /\ messageHandler = FALSE
  /\ disconnectHandler = FALSE
  /\ conn = IdleConn
  /\ numCalls = 0
  /\ pc = [c \in Calls |-> "idle"]
  /\ mid = [c \in Calls |-> NoId]
  /\ timer = [c \in Calls |-> FALSE]
  /\ hs = [c \in Calls |-> "none"]
  /\ hsErr = [c \in Calls |-> NoErr]
  /\ hsTimer = [c \in Calls |-> FALSE]
  /\ env = [c \in Calls |-> NoSecret]
  /\ outcome = [c \in Calls |-> NoOutcome]
  /\ sent = {}
  /\ inChunk = FALSE
  /\ frame = NoFrame
  /\ log = LogNone
  /\ lifecycle = [s \in Socks |-> [established |-> FALSE, notified |-> 0]]

\* no byte is under way and none has arrived
NoTraffic ==
  /\ stream = << >>
  /\ wire = << >>
  /\ messageBuffer = << >>
  /\ delivered = << >>

\* ---------------------------------------------------- getSocketCandidates()
OverridePath == "$BWBIO_IPC_SOCKET_PATH"

WindowsSocketPath == "pipe/hashB64.s.bw"

sandboxedPath ==
  "~/Library/Group Containers/LTZ2PFU5D6.com.bitwarden.desktop/s.bw"

nonSandboxedPath == "~/Library/Caches/com.bitwarden.desktop/s.bw"

LinuxSocketPath == "~/.cache/com.bitwarden.desktop/s.bw"

Platforms == {"win32", "darwin", "linux"}

\* os.platform() and whether BWBIO_IPC_SOCKET_PATH is set
Hosts == [override : BOOLEAN, platform : Platforms]

LinuxHost == [override |-> FALSE, platform |-> "linux"]

\* variant: on macOS the non-sandboxed path comes first
getSocketCandidatesSwapped(h) ==
  IF h.override THEN << OverridePath >>
  ELSE IF h.platform = "win32" THEN << WindowsSocketPath >>
  ELSE IF h.platform = "darwin" THEN << nonSandboxedPath, sandboxedPath >>
  ELSE << LinuxSocketPath >>

getSocketCandidates(h) ==
  IF h.override THEN << OverridePath >>
  ELSE IF h.platform = "win32" THEN << WindowsSocketPath >>
  ELSE IF h.platform = "darwin" THEN << sandboxedPath, nonSandboxedPath >>
  ELSE << LinuxSocketPath >>

\* the user ids of the accounts
UserIds == {"user-1", "user-2"}

\* data.json absent
NoFile == [file |-> FALSE, entries |-> << >>]

\* nothing was called yet; op is the operation called last, with the user
\* and the session key it was given
NoRet ==
  [op |-> "", userId |-> "", sessionKey |-> << >>, ok |-> TRUE,
   value |-> << >>]

NotWritten == [userKey |-> << >>, sessionKey |-> << >>]

NotGiven == [userKey |-> << >>, sessionKey |-> << >>, iv |-> << >>]

\* process.env without the three variables
NoEnv == [BW_SESSION |-> FALSE, BW_NOINTERACTION |-> FALSE, BW_QUIET |-> FALSE]

\* executeBw was not called
NoBw == [spawned |-> FALSE, args |-> << >>, session |-> << >>,
         env |-> NoEnv]

\* attemptBiometricUnlock was not called
NoAttempt == [called |-> FALSE, returned |-> FALSE, success |-> FALSE,
              userKeyB64 |-> << >>, userId |-> ""]

\* attemptBiometricUnlock() has no userStatus and no userKey yet
NoAnswer == [hasStatus |-> FALSE, userStatus |-> -1,
             hasKey |-> FALSE, userKey |-> << >>]

\* main() is not run
NoMain ==
  /\ args = << >>
  /\ processEnv = NoEnv
  /\ mainPc = "off"
  /\ attempt = NoAttempt
  /\ answer = NoAnswer
  /\ bw = NoBw
  /\ stdout = << >>

\* the storage is not used
NoStorage ==
  /\ dataJson = NoFile
  /\ ret = NoRet
  /\ written = [u \in UserIds |-> NotWritten]
  /\ given = NotGiven

Init ==
  /\ InitClient
  /\ budget = Calling
  /\ host = LinuxHost
  /\ NoTraffic
  /\ NoStorage
  /\ NoMain

InitReconnect ==
  /\ InitClient
  /\ budget = Reconnecting
  /\ host = LinuxHost
  /\ NoTraffic
  /\ NoStorage
  /\ NoMain

InitRekey ==
  /\ InitClient
  /\ budget = Rekeying
  /\ host = LinuxHost
  /\ NoTraffic
  /\ NoStorage
  /\ NoMain

\* one call on any host; the client may create two sockets
InitFallback ==
  /\ InitClient
  /\ budget = Reconnecting
  /\ host \in Hosts
  /\ NoTraffic
  /\ NoStorage
  /\ NoMain

\* ------------------------------------------------- IpcSocketService parts
\* variant: sendMessage() writes without looking at the socket
SocketAlwaysUsable == TRUE

\* sendMessage(): throws unless socket != null and not socket.destroyed
SocketUsable == socket # NoSock /\ sock[socket] # "destroyed"

\* the net.Socket the next net.createConnection() creates
IsNextSock(s) ==
  /\ s < budget.sockets
  /\ sock[s] = "unused"
  /\ \A t \in Socks : t < s => sock[t] # "unused"

\* IpcSocketService.disconnect(): destroy the referenced socket, drop the
\* reference, clear the receive buffer (which ends the frame loop)
IpcDisconnect ==
  /\ sock' = IF socket # NoSock
             THEN [sock EXCEPT ![socket] = "destroyed"]
             ELSE sock
  /\ socket' = NoSock
  /\ inChunk' = FALSE

\* --------------------------------------------------- bookkeeping of calls
Rejected(o, e, n) ==
  [o EXCEPT !.rejected = @ + n, !.removed = @ + n, !.err = e]

\* for (const callback of this.callbacks.values()) { clearTimeout; rejecter }
\* this.callbacks.clear()
RejectAllCallbacks(e) ==
  /\ outcome' = [c \in Calls |->
                   IF c \in MapValues(callbacks)
                   THEN Rejected(outcome[c], e, Entries(callbacks, c))
                   ELSE outcome[c]]
  /\ timer' = [c \in Calls |->
                 IF c \in MapValues(callbacks) THEN FALSE ELSE timer[c]]
  /\ callbacks' = EmptyMap

\* variant: the catch block rejects the call and leaves its entry and timer
CatchSendErrorKeepsEntry(c, e) ==
  IF MapHas(callbacks, mid[c])
  THEN /\ outcome' = [outcome EXCEPT ![callbacks[mid[c]]].rejected = @ + 1,
                                     ![callbacks[mid[c]]].err = e]
       /\ UNCHANGED << callbacks, timer >>
  ELSE UNCHANGED << callbacks, timer, outcome >>

\* the catch block of callCommand, for the call c whose send() rejected
CatchSendError(c, e) ==
  IF MapHas(callbacks, mid[c])
  THEN /\ callbacks' = MapDelete(callbacks, mid[c])
       /\ timer' = [timer EXCEPT ![callbacks[mid[c]]] = FALSE]
       /\ outcome' = [outcome EXCEPT ![callbacks[mid[c]]] = Rejected(@, e, 1)]
  ELSE UNCHANGED << callbacks, timer, outcome >>

\* variant: the counter is read without being advanced
SameMessageId(id) == id

\* this.messageId++
NextMessageId(id) == id + 1

\* a step that handles no frame
NotAFrame == frame' = NoFrame /\ log' = LogNone

\* ------------------------------------------------- scheduling of the steps
HsSettled(c) == hs[c] \in {"resolved", "rejected"}

\* the promise of callCommand invocation c is settled: send() is over and
\* the resolver or the rejecter of its callback was invoked
Returns(c) ==
  /\ pc[c] = "done"
  /\ outcome[c].resolved + outcome[c].rejected > 0

\* the await of main() or attemptBiometricUnlock() can resume
MainReady ==
  \/ mainPc = "connect" /\ conn.state = "idle"
  \/ mainPc = "status" /\ Returns(0)
  \/ mainPc = "unlock" /\ Returns(1)

MicroReady ==
  \/ conn.state \in {"ipcOk", "ipcFail"}
  \/ \E c \in Calls : \/ pc[c] \in {"connOk", "connFail", "post"}
                      \/ pc[c] = "hsWait" /\ HsSettled(c)
  \/ MainReady

ApiOK == ~inChunk

MicroOK == ~inChunk

MacroOK == ~inChunk /\ ~MicroReady

\* ------------------------------------------------------------- connect()
\* variant: the guard of connect() looks at the connected flag only
ReturnsEarlyIfConnected == connected

\* if (this.connected || this.connecting) return
ConnectReturnsEarly == connected \/ connecting

\* connect() past its guard: connecting = true; await ipcSocket.connect()
StartConnect(owner) ==
  /\ connecting' = TRUE
  /\ IF socket # NoSock
     THEN /\ conn' = [state |-> "ipcOk", owner |-> owner, s |-> NoSock,
                       tried |-> << >>]
          /\ UNCHANGED sock
     ELSE \E s \in Socks :
            /\ IsNextSock(s)
            /\ sock' = [sock EXCEPT ![s] = "connecting"]
            /\ conn' = [state |-> "ipc", owner |-> owner, s |-> s,
                        tried |-> << getSocketCandidates(host)[1] >>]

\* connect() up to its await
connect ==
  /\ IF ConnectReturnsEarly
     THEN UNCHANGED << connecting, conn, sock >>
     ELSE StartConnect(AppOwner)
  /\ UNCHANGED << connected, secureChannel, messageId, callbacks, socket,
                  messageHandler, disconnectHandler, numCalls, pc, mid, timer,
                  hs, hsErr, hsTimer, env, outcome, sent, inChunk >>
  /\ NotAFrame

\* connect() called by the application
Connect ==
  /\ ApiOK
  /\ connect
  /\ UNCHANGED others

\* connect() after ipcSocket.connect() settled
ConnectReturn ==
  /\ MicroOK
  /\ conn.state \in {"ipcOk", "ipcFail"}
  /\ connecting' = FALSE
  /\ conn' = IdleConn
  /\ IF conn.state = "ipcOk"
     THEN /\ messageHandler' = TRUE
          /\ disconnectHandler' = TRUE
          /\ connected' = TRUE
          /\ pc' = IF conn.owner \in Calls
                   THEN [pc EXCEPT ![conn.owner] = "connOk"]
                   ELSE pc
     ELSE /\ UNCHANGED << messageHandler, disconnectHandler, connected >>
          /\ pc' = IF conn.owner \in Calls
                   THEN [pc EXCEPT ![conn.owner] = "connFail"]
                   ELSE pc
  /\ UNCHANGED << secureChannel, messageId, callbacks, socket, sock, numCalls,
                  mid, timer, hs, hsErr, hsTimer, env, outcome, sent, inChunk >>
  /\ NotAFrame
  /\ UNCHANGED others

\* ---------------------------------------------------- send / encryptMessage
\* a message written by postMessage
Setup(id, key) ==
  [command |-> "setupEncryption", encryptionType |-> 0, mid |-> id,
   secret |-> NoSecret, installed |-> secureChannel.secret, key |-> key]

Command(c) ==
  [command |-> "command", encryptionType |-> ENCRYPTION_TYPE, mid |-> mid[c],
   secret |-> env[c], installed |-> secureChannel.secret, key |-> NoCall]

\* secureCommunication() of call c up to its returned promise; id is the
\* value of this.messageId when it runs
secureCommunication(c, id) ==
  /\ messageId' = NextMessageId(id)
  /\ IF SocketUsable
     THEN /\ sent' = sent \cup {Setup(id, c)}
          /\ secureChannel' = [present |-> TRUE, hs |-> c,
                               secret |-> NoSecret]
          /\ hs' = [hs EXCEPT ![c] = "pending"]
          /\ hsTimer' = [hsTimer EXCEPT ![c] = TRUE]
          /\ UNCHANGED << connected, hsErr >>
     ELSE \* postMessage throws
          /\ secureChannel' = NullChannel
          /\ connected' = FALSE
          /\ hs' = [hs EXCEPT ![c] = "rejected"]
          /\ hsErr' = [hsErr EXCEPT ![c] = ErrNotConnected]
          /\ UNCHANGED << sent, hsTimer >>

\* variant: encryptMessage never starts a handshake
sendWithoutHandshake(c, id) ==
  /\ env' = [env EXCEPT ![c] = secureChannel.secret]
  /\ pc' = [pc EXCEPT ![c] = "post"]
  /\ messageId' = id
  /\ UNCHANGED << secureChannel, connected, hs, hsErr, hsTimer, sent >>

\* send() of call c after its connect step, up to the next await
send(c, id) ==
  IF secureChannel.secret = NoSecret
  THEN /\ secureCommunication(c, id)
       /\ pc' = [pc EXCEPT ![c] = "hsWait"]
       /\ UNCHANGED env
  ELSE /\ env' = [env EXCEPT ![c] = secureChannel.secret]
       /\ pc' = [pc EXCEPT ![c] = "post"]
       /\ messageId' = id
       /\ UNCHANGED << secureChannel, connected, hs, hsErr, hsTimer, sent >>

\* ----------------------------------------------------------- callCommand
\* callCommand(message) up to its first await
callCommandStart ==
  /\ numCalls < budget.calls
  /\ LET c == numCalls
         id == messageId
     IN /\ numCalls' = numCalls + 1
        /\ mid' = [mid EXCEPT ![c] = id]
        /\ callbacks' = MapSet(callbacks, id, c)
        /\ timer' = [timer EXCEPT ![c] = TRUE]
        /\ IF connected
           THEN /\ send(c, NextMessageId(id))
                /\ UNCHANGED << connecting, conn, sock >>
           ELSE /\ messageId' = NextMessageId(id)
                /\ IF ConnectReturnsEarly
                   THEN /\ pc' = [pc EXCEPT ![c] = "connOk"]
                        /\ UNCHANGED << connecting, conn, sock >>
                   ELSE /\ StartConnect(c)
                        /\ pc' = [pc EXCEPT ![c] = "connWait"]
                /\ UNCHANGED << secureChannel, connected, hs, hsErr, hsTimer,
                                env, sent >>
  /\ UNCHANGED << socket, messageHandler, disconnectHandler, outcome, inChunk >>
  /\ NotAFrame

\* callCommand called by the application
callCommand ==
  /\ ApiOK
  /\ callCommandStart
  /\ UNCHANGED others

\* send() resumes after `await this.connect()` returned
SendAfterConnect(c) ==
  /\ MicroOK
  /\ pc[c] = "connOk"
  /\ send(c, messageId)
  /\ UNCHANGED << connecting, callbacks, socket, sock, messageHandler,
                  disconnectHandler, conn, numCalls, mid, timer, outcome,
                  inChunk >>
  /\ NotAFrame
  /\ UNCHANGED others

\* `await this.connect()` threw: the catch block of callCommand
SendConnectFailed(c) ==
  /\ MicroOK
  /\ pc[c] = "connFail"
  /\ CatchSendError(c, ErrConnectFailed)
  /\ pc' = [pc EXCEPT ![c] = "done"]
  /\ UNCHANGED << connected, connecting, secureChannel, messageId, socket,
                  sock, messageHandler, disconnectHandler, conn, numCalls, mid,
                  hs, hsErr, hsTimer, env, sent, inChunk >>
  /\ NotAFrame
  /\ UNCHANGED others

\* encryptMessage() resumes after `await this.secureCommunication()`
EncryptAfterSetup(c) ==
  /\ MicroOK
  /\ pc[c] = "hsWait"
  /\ HsSettled(c)
  /\ IF hs[c] = "rejected"
     THEN /\ CatchSendError(c, hsErr[c])
          /\ pc' = [pc EXCEPT ![c] = "done"]
          /\ UNCHANGED env
     ELSE IF secureChannel.secret = NoSecret
          THEN \* this.secureChannel!.sharedSecret! is null or undefined
               /\ CatchSendError(c, ErrTypeError)
               /\ pc' = [pc EXCEPT ![c] = "done"]
               /\ UNCHANGED env
          ELSE /\ env' = [env EXCEPT ![c] = secureChannel.secret]
               /\ pc' = [pc EXCEPT ![c] = "post"]
               /\ UNCHANGED << callbacks, timer, outcome >>
  /\ UNCHANGED << connected, connecting, secureChannel, messageId, socket,
                  sock, messageHandler, disconnectHandler, conn, numCalls, mid,
                  hs, hsErr, hsTimer, sent, inChunk >>
  /\ NotAFrame
  /\ UNCHANGED others

\* send() resumes after `await this.encryptMessage(message)`: postMessage
PostCommand(c) ==
  /\ MicroOK
  /\ pc[c] = "post"
  /\ pc' = [pc EXCEPT ![c] = "done"]
  /\ IF SocketUsable
     THEN /\ sent' = sent \cup {Command(c)}
          /\ UNCHANGED << secureChannel, connected, callbacks, timer,
                          outcome >>
     ELSE /\ secureChannel' = NullChannel
          /\ connected' = FALSE
          /\ CatchSendError(c, ErrNotConnected)
          /\ UNCHANGED sent
  /\ UNCHANGED << connecting, messageId, socket, sock, messageHandler,
                  disconnectHandler, conn, numCalls, mid, hs, hsErr, hsTimer,
                  env, inChunk >>
  /\ NotAFrame
  /\ UNCHANGED others

\* ------------------------------------------------------------ disconnect()
\* variant: the channel is left in place
disconnectKeepsChannel ==
  /\ ApiOK
  /\ IpcDisconnect
  /\ connected' = FALSE
  /\ UNCHANGED << secureChannel, connecting, messageId, callbacks,
                  messageHandler, disconnectHandler, conn, numCalls, pc, mid,
                  timer, hs, hsErr, hsTimer, env, outcome, sent >>
  /\ NotAFrame
  /\ UNCHANGED others

\* disconnect() called by the application
disconnect ==
  /\ ApiOK
  /\ IpcDisconnect
  /\ connected' = FALSE
  /\ secureChannel' = NullChannel
  /\ UNCHANGED << connecting, messageId, callbacks, messageHandler,
                  disconnectHandler, conn, numCalls, pc, mid, timer, hs, hsErr,
                  hsTimer, env, outcome, sent >>
  /\ NotAFrame
  /\ UNCHANGED others

\* client.disconnect() in the finally block of attemptBiometricUnlock
clientDisconnect ==
  /\ IpcDisconnect
  /\ connected' = FALSE
  /\ secureChannel' = NullChannel
  /\ UNCHANGED << connecting, messageId, callbacks, messageHandler,
                  disconnectHandler, conn, numCalls, pc, mid, timer, hs, hsErr,
                  hsTimer, env, outcome, sent >>
  /\ NotAFrame

\* ------------------------------------------------------------------ timers
\* variant: a call that times out takes the channel down with it
CallTimeoutTearsDown(c) ==
  /\ MacroOK
  /\ timer[c]
  /\ timer' = [timer EXCEPT ![c] = FALSE]
  /\ IF MapHas(callbacks, mid[c])
     THEN /\ callbacks' = MapDelete(callbacks, mid[c])
          /\ outcome' = [outcome EXCEPT ![c] = Rejected(@, ErrTimedOut, 1)]
          /\ secureChannel' = NullChannel
          /\ connected' = FALSE
     ELSE UNCHANGED << callbacks, outcome, secureChannel, connected >>
  /\ UNCHANGED << connecting, messageId, socket, sock, messageHandler,
                  disconnectHandler, conn, numCalls, pc, mid, hs, hsErr,
                  hsTimer, env, sent, inChunk >>
  /\ NotAFrame
  /\ UNCHANGED others

\* the deadline timer set by callCommand fires
CallTimeout(c) ==
  /\ MacroOK
  /\ timer[c]
  /\ timer' = [timer EXCEPT ![c] = FALSE]
  /\ IF MapHas(callbacks, mid[c])
     THEN /\ callbacks' = MapDelete(callbacks, mid[c])
          /\ outcome' = [outcome EXCEPT ![c] = Rejected(@, ErrTimedOut, 1)]
     ELSE UNCHANGED << callbacks, outcome >>
  /\ UNCHANGED << connected, connecting, secureChannel, messageId, socket,
                  sock, messageHandler, disconnectHandler, conn, numCalls, pc,
                  mid, hs, hsErr, hsTimer, env, sent, inChunk >>
  /\ NotAFrame
  /\ UNCHANGED others

\* the key exchange timer set by secureCommunication fires
SetupTimeout(c) ==
  /\ MacroOK
  /\ hsTimer[c]
  /\ hsTimer' = [hsTimer EXCEPT ![c] = FALSE]
  /\ IF secureChannel.present /\ secureChannel.secret = NoSecret
        /\ hs[c] = "pending"
     THEN /\ hs' = [hs EXCEPT ![c] = "rejected"]
          /\ hsErr' = [hsErr EXCEPT ![c] = ErrSetupTimedOut]
     ELSE UNCHANGED << hs, hsErr >>
  /\ UNCHANGED << connected, connecting, secureChannel, messageId, callbacks,
                  socket, sock, messageHandler, disconnectHandler, conn,
                  numCalls, pc, mid, timer, env, outcome, sent, inChunk >>
  /\ NotAFrame
  /\ UNCHANGED others

\* ----------------------------------------------------------- socket events
\* socket.on("connect")
SocketConnect(s) ==
  /\ MacroOK
  /\ sock[s] = "connecting"
  /\ sock' = [sock EXCEPT ![s] = "open"]
  /\ socket' = s
  /\ conn' = IF conn.state = "ipc" /\ conn.s = s
             THEN [conn EXCEPT !.state = "ipcOk"]
             ELSE conn
  /\ UNCHANGED << connected, connecting, secureChannel, messageId, callbacks,
                  messageHandler, disconnectHandler, numCalls, pc, mid, timer,
                  hs, hsErr, hsTimer, env, outcome, sent, inChunk >>
  /\ NotAFrame
  /\ lifecycle' = [lifecycle EXCEPT ![s].established = TRUE]
  /\ UNCHANGED << scenario, answer >>

\* socket.on("error") of a connection attempt, or its 5 s timeout: the
\* attempt is rejected when no socket is referenced; the socket is destroyed.
\* The catch in the loop of IpcSocketService.connect() goes on to the next
\* candidate; after the last one connect() throws.
SocketFail(s) ==
  /\ MacroOK
  /\ sock[s] = "connecting"
  /\ LET socketPaths == getSocketCandidates(host)
         rejected == conn.state = "ipc" /\ conn.s = s /\ socket = NoSock
     IN  IF rejected /\ Len(conn.tried) < Len(socketPaths)
         THEN \E t \in Socks :
                /\ IsNextSock(t)
                /\ sock' = [sock EXCEPT ![s] = "destroyed",
                                        ![t] = "connecting"]
                /\ conn' = [conn EXCEPT
                              !.s = t,
                              !.tried = Append(@, socketPaths[Len(@) + 1])]
         ELSE /\ sock' = [sock EXCEPT ![s] = "destroyed"]
              /\ conn' = IF rejected
                         THEN [conn EXCEPT !.state = "ipcFail"]
                         ELSE conn
  /\ UNCHANGED << connected, connecting, secureChannel, messageId, callbacks,
                  socket, messageHandler, disconnectHandler, numCalls, pc, mid,
                  timer, hs, hsErr, hsTimer, env, outcome, sent, inChunk >>
  /\ NotAFrame
  /\ UNCHANGED others

\* the peer closes an established connection: the socket is destroyed and
\* its "close" event is emitted later
PeerClose(s) ==
  /\ MacroOK
  /\ sock[s] = "open"
  /\ sock' = [sock EXCEPT ![s] = "destroyed"]
  /\ UNCHANGED << connected, connecting, secureChannel, messageId, callbacks,
                  socket, messageHandler, disconnectHandler, conn, numCalls,
                  pc, mid, timer, hs, hsErr, hsTimer, env, outcome, sent,
                  inChunk >>
  /\ NotAFrame
  /\ UNCHANGED others

\* variant: the handler clears the flags and leaves the pending calls alone
onDisconnectKeepsCalls ==
  /\ connected' = FALSE
  /\ secureChannel' = NullChannel
  /\ UNCHANGED << outcome, timer, callbacks >>

\* the handler registered with ipcSocket.onDisconnect
onDisconnect ==
  /\ connected' = FALSE
  /\ secureChannel' = NullChannel
  /\ RejectAllCallbacks(ErrDisconnected)

\* variant: the close handler does not call the disconnect handler
SocketCloseSilent(s) ==
  /\ MacroOK
  /\ sock[s] = "destroyed"
  /\ sock' = [sock EXCEPT ![s] = "closed"]
  /\ socket' = NoSock
  /\ UNCHANGED << connected, secureChannel, outcome, timer, callbacks,
                  lifecycle >>
  /\ UNCHANGED << connecting, messageId, messageHandler, disconnectHandler,
                  conn, numCalls, pc, mid, hs, hsErr, hsTimer, env, sent,
                  inChunk >>
  /\ NotAFrame
  /\ UNCHANGED << scenario, answer >>

\* socket.on("close")
SocketClose(s) ==
  /\ MacroOK
  /\ sock[s] = "destroyed"
  /\ sock' = [sock EXCEPT ![s] = "closed"]
  /\ socket' = NoSock
  /\ IF disconnectHandler
     THEN /\ onDisconnect
          /\ lifecycle' = [lifecycle EXCEPT ![s].notified = @ + 1]
     ELSE UNCHANGED << connected, secureChannel, outcome, timer, callbacks,
                       lifecycle >>
  /\ UNCHANGED << connecting, messageId, messageHandler, disconnectHandler,
                  conn, numCalls, pc, mid, hs, hsErr, hsTimer, env, sent,
                  inChunk >>
  /\ NotAFrame
  /\ UNCHANGED << scenario, answer >>

\* ---------------------------------------------------------- received frames
\* the shared secrets a peer may send or encrypt with
Secrets == 1 .. budget.secrets

\* message.timestamp - Date.now() of a received message
Skews == {-(MESSAGE_VALID_TIMEOUT + 1), -MESSAGE_VALID_TIMEOUT,
          MESSAGE_VALID_TIMEOUT, MESSAGE_VALID_TIMEOUT + 1}

\* message ids a peer may put into a message: those of the calls issued so
\* far, or none
PeerIds == {mid[c] : c \in 0 .. (numCalls - 1)} \cup {NoId}

\* keys a peer may encrypt a shared secret for: the public keys it was sent,
\* or none of them
PeerKeys == {m.key : m \in {x \in sent : x.command = "setupEncryption"}}
            \cup {NoCall}

\* the `message` member of a received outer message: absent, an unencrypted
\* inner message, or an encrypted one (made under `secret`, `tampered` when
\* iv, data or mac were changed afterwards); timestamp absent when ~hasTs
Payload(k, s, t, h, x, i) ==
  [kind |-> k, secret |-> s, tampered |-> t, hasTs |-> h, skew |-> x,
   messageId |-> i]

Payloads ==
  {NoPayload}
  \cup { Payload("plain", NoSecret, FALSE, TRUE, x, i) :
           x \in {MESSAGE_VALID_TIMEOUT, MESSAGE_VALID_TIMEOUT + 1},
           i \in PeerIds }
  \cup { Payload("plain", NoSecret, FALSE, FALSE, 0, i) : i \in PeerIds }
  \cup { Payload("encrypted", s, FALSE, TRUE, x, i) :
           s \in Secrets, x \in Skews, i \in PeerIds }
  \cup { Payload("encrypted", s, FALSE, FALSE, 0, i) :
           s \in Secrets, i \in PeerIds }
  \cup { Payload("encrypted", s, TRUE, TRUE, MESSAGE_VALID_TIMEOUT, i) :
           s \in Secrets, i \in PeerIds }

Control(cmd, a) ==
  [command |-> cmd, appId |-> a, hasSecret |-> FALSE, forKey |-> NoCall,
   secret |-> NoSecret, message |-> NoPayload]

SetupResponse(a, k, x) ==
  [command |-> "setupEncryption", appId |-> a, hasSecret |-> TRUE,
   forKey |-> k, secret |-> x, message |-> NoPayload]

Response(a, p) ==
  [command |-> "response", appId |-> a, hasSecret |-> FALSE,
   forKey |-> NoCall, secret |-> NoSecret, message |-> p]

\* an encrypted payload made under the installed secret, with its mac
Authentic(h, x, i) ==
  Payload("encrypted", secureChannel.secret, FALSE, h, x, i)

\* messages addressed to another app that handleMessage filters by appId;
\* they carry what would be accepted if they were addressed to this one
ForeignMessages ==
  {Control("invalidateEncryption", OtherAppId)}
  \cup { SetupResponse(OtherAppId, secureChannel.hs, x) : x \in Secrets }
  \cup { Response(OtherAppId, Authentic(TRUE, MESSAGE_VALID_TIMEOUT, i)) :
           i \in PeerIds }

\* the outer messages a peer may send
Messages ==
  { Control(cmd, MyAppId) :
      cmd \in {"setupEncryption", "invalidateEncryption", "wrongUserId",
               "verifyDesktopIPCFingerprint"} }
  \cup {Control("wrongUserId", OtherAppId)}
  \cup { SetupResponse(MyAppId, k, x) : k \in PeerKeys, x \in Secrets }
  \cup { Response(MyAppId, p) : p \in Payloads }
  \cup ForeignMessages

\* variant: the mac is not compared
MacUnchecked(p) == TRUE

\* crypto.timingSafeEqual(mac, expectedMac) for an encrypted payload
MacValid(p) == p.secret = secureChannel.secret /\ ~p.tampered

\* variant: the comparison is >= instead of >
TooOldInclusive(p) == p.hasTs /\ Abs(p.skew) >= MESSAGE_VALID_TIMEOUT

\* Math.abs(message.timestamp - Date.now()) > MESSAGE_VALID_TIMEOUT; the
\* comparison is false for NaN (timestamp absent)
TooOld(p) == p.hasTs /\ Abs(p.skew) > MESSAGE_VALID_TIMEOUT

Resolved(o, p) ==
  [o EXCEPT !.resolved = @ + 1, !.removed = @ + 1, !.by = p]

\* variant: the callback is resolved and left in the map
processDecryptedMessageNoDelete(p) ==
  IF TooOld(p)
  THEN /\ log' = LogTooOld
       /\ UNCHANGED << timer, callbacks, outcome >>
  ELSE IF MapHas(callbacks, p.messageId)
       THEN /\ timer' = [timer EXCEPT ![callbacks[p.messageId]] = FALSE]
            /\ outcome' = [outcome EXCEPT ![callbacks[p.messageId]] =
                                             Resolved(@, p)]
            /\ log' = LogNone
            /\ UNCHANGED callbacks
       ELSE /\ log' = LogNoCallback
            /\ UNCHANGED << timer, callbacks, outcome >>

\* variant: a response resolves the oldest pending call, whatever its id
processDecryptedMessageInOrder(p) ==
  IF TooOld(p)
  THEN /\ log' = LogTooOld
       /\ UNCHANGED << timer, callbacks, outcome >>
  ELSE IF callbacks # EmptyMap
       THEN LET first == CHOOSE k \in DOMAIN callbacks :
                           \A j \in DOMAIN callbacks : k <= j
            IN /\ timer' = [timer EXCEPT ![callbacks[first]] = FALSE]
               /\ callbacks' = MapDelete(callbacks, first)
               /\ outcome' = [outcome EXCEPT ![callbacks[first]] =
                                                Resolved(@, p)]
               /\ log' = LogNone
       ELSE /\ log' = LogNoCallback
            /\ UNCHANGED << timer, callbacks, outcome >>

processDecryptedMessage(p) ==
  IF TooOld(p)
  THEN /\ log' = LogTooOld
       /\ UNCHANGED << timer, callbacks, outcome >>
  ELSE IF MapHas(callbacks, p.messageId)
       THEN /\ timer' = [timer EXCEPT ![callbacks[p.messageId]] = FALSE]
            /\ callbacks' = MapDelete(callbacks, p.messageId)
            /\ outcome' = [outcome EXCEPT ![callbacks[p.messageId]] =
                                             Resolved(@, p)]
            /\ log' = LogNone
       ELSE /\ log' = LogNoCallback
            /\ UNCHANGED << timer, callbacks, outcome >>

handleEncryptedMessage(p) ==
  IF secureChannel.secret = NoSecret
  THEN /\ log' = LogNone
       /\ UNCHANGED << timer, callbacks, outcome >>
  ELSE IF p.kind = "encrypted" /\ ~MacValid(p)
       THEN /\ log' = ThrownIntegrity
            /\ UNCHANGED << timer, callbacks, outcome >>
       ELSE processDecryptedMessage(p)

handleSetupEncryption(msg) ==
  IF ~msg.hasSecret
  THEN /\ log' = LogNoSecret
       /\ UNCHANGED << secureChannel, hs >>
  ELSE IF ~secureChannel.present
  THEN /\ log' = LogNoChannel
       /\ UNCHANGED << secureChannel, hs >>
  ELSE IF msg.forKey # secureChannel.hs
  THEN \* crypto.privateDecrypt throws
       /\ log' = ThrownDecrypt
       /\ UNCHANGED << secureChannel, hs >>
  ELSE /\ secureChannel' = [secureChannel EXCEPT !.secret = msg.secret]
       /\ hs' = IF hs[secureChannel.hs] = "pending"
                THEN [hs EXCEPT ![secureChannel.hs] = "resolved"]
                ELSE hs
       /\ log' = LogNone

\* this.secureChannel.setupReject(e), when there is a channel
setupReject(e) ==
  IF secureChannel.present /\ hs[secureChannel.hs] = "pending"
  THEN /\ hs' = [hs EXCEPT ![secureChannel.hs] = "rejected"]
       /\ hsErr' = [hsErr EXCEPT ![secureChannel.hs] = e]
  ELSE UNCHANGED << hs, hsErr >>

\* variant: the handshake waiter is not rejected
invalidateEncryptionKeepsWaiter ==
  /\ UNCHANGED << hs, hsErr >>
  /\ secureChannel' = NullChannel
  /\ RejectAllCallbacks(ErrInvalidated)
  /\ connected' = FALSE
  /\ IpcDisconnect
  /\ log' = LogNone

\* variant: the pending calls are left in the map
invalidateEncryptionKeepsCalls ==
  /\ setupReject(ErrInvalidated)
  /\ secureChannel' = NullChannel
  /\ UNCHANGED << outcome, timer, callbacks >>
  /\ connected' = FALSE
  /\ IpcDisconnect
  /\ log' = LogNone

\* case "invalidateEncryption" past the appId filter
invalidateEncryption ==
  /\ setupReject(ErrInvalidated)
  /\ secureChannel' = NullChannel
  /\ RejectAllCallbacks(ErrInvalidated)
  /\ connected' = FALSE
  /\ IpcDisconnect
  /\ log' = LogNone

\* variant: the pending calls are not rejected
wrongUserIdKeepsCalls ==
  /\ setupReject(ErrWrongUser)
  /\ secureChannel' = NullChannel
  /\ UNCHANGED << outcome, timer, callbacks >>
  /\ connected' = FALSE
  /\ IpcDisconnect
  /\ log' = LogNone

\* case "wrongUserId"
wrongUserId ==
  /\ setupReject(ErrWrongUser)
  /\ secureChannel' = NullChannel
  /\ RejectAllCallbacks(ErrWrongUser)
  /\ connected' = FALSE
  /\ IpcDisconnect
  /\ log' = LogNone

\* what getFingerprint(appId, publicKey) of fingerprint.ts yields: five words
\* derived from the app id and the key
getFingerprint == "getFingerprint(appId, publicKeyDer).join('-')"

\* what showFingerprint() derives: the first 25 hex digits of the SHA-256 of
\* the public key, in groups of five
ShownFingerprint == "sha256(publicKeyDer).hex.slice(0, 25) in groups of 5"

\* showFingerprint(): prints the fingerprint of the channel's public key to
\* stderr when there is a channel
showFingerprint ==
  log' = IF secureChannel.present THEN ShownFingerprint ELSE LogNone

\* variant: no message is filtered by appId
NeverOtherApp(msg) == FALSE

\* message.appId !== this.appId
OtherApp(msg) == msg.appId # MyAppId

\* handleMessage(message), called from the frame loop of processIncomingData
handleMessage(msg) ==
  /\ CASE msg.command = "setupEncryption" ->
            /\ IF OtherApp(msg)
               THEN /\ log' = LogOtherApp
                    /\ UNCHANGED << secureChannel, hs >>
               ELSE handleSetupEncryption(msg)
            /\ inChunk' = TRUE
            /\ UNCHANGED << connected, callbacks, timer, outcome, hsErr,
                            socket, sock >>
       [] msg.command = "invalidateEncryption" ->
            IF OtherApp(msg)
            THEN /\ log' = LogOtherApp
                 /\ inChunk' = TRUE
                 /\ UNCHANGED << secureChannel, hs, hsErr, connected,
                                 callbacks, timer, outcome, socket, sock >>
            ELSE invalidateEncryption
       [] msg.command = "wrongUserId" -> wrongUserId
       [] msg.command = "verifyDesktopIPCFingerprint" ->
            /\ showFingerprint
            /\ inChunk' = TRUE
            /\ UNCHANGED << secureChannel, hs, hsErr, connected, callbacks,
                            timer, outcome, socket, sock >>
       [] OTHER ->
            /\ IF OtherApp(msg)
               THEN /\ log' = LogOtherApp
                    /\ UNCHANGED << timer, callbacks, outcome >>
               ELSE IF msg.message.kind = "none"
               THEN /\ log' = LogNone
                    /\ UNCHANGED << timer, callbacks, outcome >>
               ELSE handleEncryptedMessage(msg.message)
            /\ inChunk' = TRUE
            /\ UNCHANGED << secureChannel, hs, hsErr, connected, socket,
                            sock >>
  /\ UNCHANGED << connecting, messageId, messageHandler, disconnectHandler,
                  conn, numCalls, pc, mid, hsTimer, env, sent >>

\* socket.on("data") -> processIncomingData: one frame of the chunk
Frame(msg) ==
  /\ inChunk \/ ~MicroReady
  /\ \E s \in Socks : sock[s] = "open"
  /\ messageHandler
  /\ frame' = msg
  /\ handleMessage(msg)
  /\ UNCHANGED others

Receive == \E msg \in Messages : Frame(msg)

\* the frame loop of processIncomingData ends: no complete frame is left
EndOfChunk ==
  /\ inChunk
  /\ inChunk' = FALSE
  /\ UNCHANGED << connected, connecting, secureChannel, messageId, callbacks,
                  socket, sock, messageHandler, disconnectHandler, conn,
                  numCalls, pc, mid, timer, hs, hsErr, hsTimer, env, outcome,
                  sent >>
  /\ NotAFrame
  /\ UNCHANGED others

\* ------------------------------------------------------------ byte framing
\* the bytes of the JSON texts considered: "1", "{" and "}"
JsonBytes == {49, 123, 125}

\* a parsed JSON value: a number or the empty object
JsonObject == [type |-> "object", n |-> 0]

JsonNumber(n) == [type |-> "number", n |-> n]

\* JSON.parse threw a SyntaxError
NotJson == [type |-> "SyntaxError", n |-> 0]

\* JSON.stringify followed by the UTF-8 encoding
RECURSIVE Digits(_)
Digits(n) ==
  IF n < 10 THEN << 48 + n >> ELSE Append(Digits(n \div 10), 48 + (n % 10))

JsonStringify(v) ==
  IF v.type = "object" THEN << 123, 125 >> ELSE Digits(v.n)

\* the UTF-8 decoding followed by JSON.parse, on texts made of digits and
\* braces: a number without a leading zero, or the empty object
RECURSIVE NumberOf(_)
NumberOf(b) ==
  IF Len(b) = 0 THEN 0
  ELSE 10 * NumberOf(SubSeq(b, 1, Len(b) - 1)) + (b[Len(b)] - 48)

JsonParse(b) ==
  IF b = << 123, 125 >> THEN JsonObject
  ELSE IF /\ Len(b) > 0
          /\ \A i \in 1 .. Len(b) : b[i] \in 48 .. 57
          /\ (Len(b) > 1 => b[1] # 48)
       THEN JsonNumber(NumberOf(b))
       ELSE NotJson

\* Buffer.writeUInt32LE
WriteUInt32LE(n) ==
  << n % 256, (n \div 256) % 256, (n \div 65536) % 256,
     (n \div 16777216) % 256 >>

\* variant: the length is read most significant byte first
ReadUInt32BE(b) == (16777216 * b[1]) + (65536 * b[2]) + (256 * b[3]) + b[4]

\* Buffer.readUInt32LE(0)
ReadUInt32LE(b) == b[1] + (256 * b[2]) + (65536 * b[3]) + (16777216 * b[4])

\* the frame format of sendMessage(): the length of the payload in four
\* bytes, then the payload
EncodeFrame(payload) == WriteUInt32LE(Len(payload)) \o payload

\* variant: a payload that does not parse ends the loop and stays buffered
RECURSIVE DrainKeepsBadFrame(_, _, _)
DrainKeepsBadFrame(buffer, out, handler) ==
  IF Len(buffer) < 4
  THEN [buffer |-> buffer, delivered |-> out]
  ELSE LET messageLength == ReadUInt32LE(buffer)
       IN  IF Len(buffer) < 4 + messageLength
           THEN [buffer |-> buffer, delivered |-> out]
           ELSE LET messageBytes == SubSeq(buffer, 5, 4 + messageLength)
                    rest == SubSeq(buffer, 5 + messageLength, Len(buffer))
                    message == JsonParse(messageBytes)
                IN  IF message = NotJson
                    THEN [buffer |-> buffer, delivered |-> out]
                    ELSE DrainKeepsBadFrame(rest,
                           IF handler THEN Append(out, message) ELSE out,
                           handler)

\* the while loop of processIncomingData: as long as the buffer holds a
\* complete frame, take it out of the buffer, parse its payload and hand the
\* value to the message handler if one is registered; a payload that does
\* not parse is dropped
RECURSIVE Drain(_, _, _)
Drain(buffer, out, handler) ==
  IF Len(buffer) < 4
  THEN [buffer |-> buffer, delivered |-> out]
  ELSE LET messageLength == ReadUInt32LE(buffer)
       IN  IF Len(buffer) < 4 + messageLength
           THEN [buffer |-> buffer, delivered |-> out]
           ELSE LET messageBytes == SubSeq(buffer, 5, 4 + messageLength)
                    rest == SubSeq(buffer, 5 + messageLength, Len(buffer))
                    message == JsonParse(messageBytes)
                IN  Drain(rest,
                          IF message # NotJson /\ handler
                          THEN Append(out, message)
                          ELSE out,
                          handler)

\* processIncomingData(data): append the chunk to the buffer, then the loop
processIncomingData(data) ==
  LET r == Drain(messageBuffer \o data, delivered, messageHandler)
  IN  /\ messageBuffer' = r.buffer
      /\ delivered' = r.delivered

\* the byte sequences of length n over JsonBytes
RECURSIVE BytesOfLen(_)
BytesOfLen(n) ==
  IF n = 0 THEN {<< >>}
  ELSE {Append(b, x) : b \in BytesOfLen(n - 1), x \in JsonBytes}

\* the number written with k digits 1
RECURSIVE Ones(_)
Ones(k) == IF k = 0 THEN 0 ELSE (10 * Ones(k - 1)) + 1

\* the values the peer sends
JsonValues == {JsonObject} \cup {JsonNumber(Ones(k)) : k \in 1 .. MaxPayload}

\* the payloads that are not the text of a JSON value
Garbage ==
  (UNION {BytesOfLen(n) : n \in 0 .. MaxPayload})
    \ {JsonStringify(v) : v \in JsonValues}

\* what the peer puts into one frame: the text of a value, or garbage
Items ==
  {[msg |-> v, payload |-> JsonStringify(v)] : v \in JsonValues}
    \cup {[msg |-> NotJson, payload |-> g] : g \in Garbage}

Streams == UNION {[1 .. n -> Items] : n \in 0 .. MaxFrames}

\* the bytes of the first n frames of a stream
RECURSIVE Encoded(_, _)
Encoded(st, n) ==
  IF n = 0 THEN << >>
  ELSE Encoded(st, n - 1) \o EncodeFrame(st[n].payload)

\* the transport alone, receiving a stream
Framing == [calls |-> 0, sockets |-> 0, secrets |-> MaxSecrets]

InitFraming ==
  /\ InitClient
  /\ budget = Framing
  /\ host = LinuxHost
  /\ stream \in Streams
  /\ wire = Encoded(stream, Len(stream))
  /\ messageBuffer = << >>
  /\ delivered = << >>
  /\ NoStorage
  /\ NoMain

\* onMessage(handler)
onMessage ==
  /\ ~messageHandler
  /\ messageHandler' = TRUE
  /\ UNCHANGED << wire, messageBuffer, delivered >>
  /\ UNCHANGED << budget, host, stream, dataJson, ret, written, given, lifecycle,
                  answer >>
  /\ UNCHANGED cli
  /\ UNCHANGED client

\* a data event of the socket with the next k bytes of the stream; the
\* handler was registered when connect() returned, before any data event
Data(k) ==
  /\ messageHandler
  /\ k \in 1 .. Len(wire)
  /\ processIncomingData(SubSeq(wire, 1, k))
  /\ wire' = SubSeq(wire, k + 1, Len(wire))
  /\ UNCHANGED messageHandler
  /\ UNCHANGED << budget, host, stream, dataJson, ret, written, given, lifecycle,
                  answer >>
  /\ UNCHANGED cli
  /\ UNCHANGED client

\* the sizes of the chunks
ChunkSizes == 1 .. (MaxFrames * (4 + MaxPayload))

NextFraming ==
  \/ onMessage
  \/ \E k \in ChunkSizes : Data(k)

\* ------------------------------------------------------------------ base64
Base64Alphabet ==
  << "A", "B", "C", "D", "E", "F", "G", "H", "I", "J", "K", "L", "M", "N", "O",
     "P", "Q", "R", "S", "T", "U", "V", "W", "X", "Y", "Z", "a", "b", "c", "d",
     "e", "f", "g", "h", "i", "j", "k", "l", "m", "n", "o", "p", "q", "r", "s",
     "t", "u", "v", "w", "x", "y", "z", "0", "1", "2", "3", "4", "5", "6", "7",
     "8", "9", "+", "/" >>

\* the value of a character for the decoder of Buffer.from(s, "base64"),
\* which also takes the URL-safe characters
Base64Value(c) ==
  IF c = "-" THEN 62
  ELSE IF c = "_" THEN 63
  ELSE (CHOOSE i \in 1 .. 64 : Base64Alphabet[i] = c) - 1

\* Buffer.from(s, "base64"): the characters before the first "=" are
\* decoded, four characters to three bytes; two left-over characters give
\* one byte, three give two, one gives none
FromBase64(s) ==
  LET pads == {i \in 1 .. Len(s) : s[i] = "="}
      n == IF pads = {}
           THEN Len(s)
           ELSE (CHOOSE i \in pads : \A j \in pads : i <= j) - 1
      v(i) == IF i <= n THEN Base64Value(s[i]) ELSE 0
      len == (3 * (n \div 4))
               + (IF n % 4 = 2 THEN 1 ELSE IF n % 4 = 3 THEN 2 ELSE 0)
  IN  [i \in 1 .. len |->
         LET g == 4 * ((i - 1) \div 3)
             x == (262144 * v(g + 1)) + (4096 * v(g + 2)) + (64 * v(g + 3))
                    + v(g + 4)
         IN  IF (i - 1) % 3 = 0 THEN x \div 65536
             ELSE IF (i - 1) % 3 = 1 THEN (x \div 256) % 256
             ELSE x % 256]

\* buffer.toString("base64"): three bytes to four characters, padded with "="
ToBase64(b) ==
  LET n == Len(b)
      y(i) == IF i <= n THEN b[i] ELSE 0
  IN  [i \in 1 .. (4 * ((n + 2) \div 3)) |->
         LET g == 3 * ((i - 1) \div 4)
             r == (i - 1) % 4
             x == (65536 * y(g + 1)) + (256 * y(g + 2)) + y(g + 3)
         IN  IF r = 0 THEN Base64Alphabet[(x \div 262144) + 1]
             ELSE IF r = 1 THEN Base64Alphabet[((x \div 4096) % 64) + 1]
             ELSE IF r = 2
             THEN IF g + 2 > n THEN "="
                  ELSE Base64Alphabet[((x \div 64) % 64) + 1]
             ELSE IF g + 3 > n THEN "="
                  ELSE Base64Alphabet[(x % 64) + 1]]

\* --------------------------------------------------------- node:crypto
\* The cipher and the keyed hash of the library are replaced by stand-ins of
\* the same shape: a CBC mode with PKCS#7 padding over a block cipher that
\* adds the key to the block, and a 32-byte keyed checksum.
AES_BLOCK == 16

AES_KEY_LENGTH == 32

HMAC_LENGTH == 32

ErrInvalidKeyLength == "Invalid key length"

ErrBadDecrypt == "bad decrypt"

Throws(e) == [ok |-> FALSE, error |-> e]

Returned(v) == [ok |-> TRUE, value |-> v]

Pkcs7Pad(data) ==
  LET n == AES_BLOCK - (Len(data) % AES_BLOCK)
  IN  data \o [i \in 1 .. n |-> n]

\* the key byte added to position j of a block
BlockKey(key, j) == key[j] + key[j + AES_BLOCK]

\* the ciphertext of padded data p, c0 the initialisation vector
RECURSIVE CbcEncrypt(_, _, _)
CbcEncrypt(key, prev, p) ==
  IF Len(p) = 0 THEN << >>
  ELSE LET c == [j \in 1 .. AES_BLOCK |->
                   (p[j] + prev[j] + BlockKey(key, j)) % 256]
       IN  c \o CbcEncrypt(key, c, SubSeq(p, AES_BLOCK + 1, Len(p)))

RECURSIVE CbcDecrypt(_, _, _)
CbcDecrypt(key, prev, c) ==
  IF Len(c) = 0 THEN << >>
  ELSE LET p == [j \in 1 .. AES_BLOCK |->
                   (((c[j] - prev[j]) - BlockKey(key, j)) + 768) % 256]
       IN  p \o CbcDecrypt(key, SubSeq(c, 1, AES_BLOCK),
                           SubSeq(c, AES_BLOCK + 1, Len(c)))

\* createCipheriv("aes-256-cbc", key, iv): update(data), final()
AesCbcEncrypt(key, iv, data) ==
  IF Len(key) # AES_KEY_LENGTH \/ Len(iv) # AES_BLOCK
  THEN Throws(ErrInvalidKeyLength)
  ELSE Returned(CbcEncrypt(key, iv, Pkcs7Pad(data)))

\* createDecipheriv("aes-256-cbc", key, iv): update(data), final()
AesCbcDecrypt(key, iv, data) ==
  IF Len(key) # AES_KEY_LENGTH \/ Len(iv) # AES_BLOCK
  THEN Throws(ErrInvalidKeyLength)
  ELSE IF Len(data) = 0 \/ Len(data) % AES_BLOCK # 0
  THEN Throws(ErrBadDecrypt)
  ELSE LET p == CbcDecrypt(key, iv, data)
           n == p[Len(p)]
       IN  IF /\ n \in 1 .. AES_BLOCK
              /\ \A i \in (Len(p) - n + 1) .. Len(p) : p[i] = n
           THEN Returned(SubSeq(p, 1, Len(p) - n))
           ELSE Throws(ErrBadDecrypt)

\* createHmac("sha256", key): update(...), digest()
HmacSha256(key, m) ==
  LET at(i) == IF Len(m) = 0 THEN 0 ELSE m[(i % Len(m)) + 1]
  IN  [j \in 1 .. HMAC_LENGTH |->
         (key[((j - 1) % Len(key)) + 1] + Len(m) + at(j - 1)
            + (2 * at(j + 31)) + (3 * at(j + 63)) + (5 * at(j + 95))) % 256]

\* --------------------------------------------------------- session storage
SESSION_KEY_LENGTH == 64

IV_LENGTH == 16

ErrSessionKey == "Session key must be 64 bytes"

\* readFileSync of a file that does not exist
ErrNoFile == "ENOENT"

ErrNoEntry == "No encrypted user key found in data.json"

ErrBlobTooShort == "Encrypted user key blob too short"

ErrEncType == "Unexpected encryption type"

ErrHmac == "HMAC verification failed - session key may be wrong"

\* encryptWithSessionKey with the mac computed over the ciphertext alone
encryptWithSessionKeyMacNoIv(bytes, sessionKey, iv) ==
  LET keyBytes == FromBase64(sessionKey)
  IN  IF Len(keyBytes) # SESSION_KEY_LENGTH
      THEN Throws(ErrSessionKey)
      ELSE LET encKey == SubSeq(keyBytes, 1, 32)
               macKey == SubSeq(keyBytes, 33, 64)
               encrypted == AesCbcEncrypt(encKey, iv, bytes).value
               mac == HmacSha256(macKey, encrypted)
               result == [i \in 1 .. (1 + 16 + 32 + Len(encrypted)) |->
                            IF i = 1 THEN ENCRYPTION_TYPE
                            ELSE IF i <= 17 THEN iv[i - 1]
                            ELSE IF i <= 49 THEN mac[i - 17]
                            ELSE encrypted[i - 49]]
           IN  Returned(ToBase64(result))

\* encryptWithSessionKey(data, sessionKey), iv the value of randomBytes(16)
encryptWithSessionKey(bytes, sessionKey, iv) ==
  LET keyBytes == FromBase64(sessionKey)
  IN  IF Len(keyBytes) # SESSION_KEY_LENGTH
      THEN Throws(ErrSessionKey)
      ELSE LET encKey == SubSeq(keyBytes, 1, 32)
               macKey == SubSeq(keyBytes, 33, 64)
               encrypted == AesCbcEncrypt(encKey, iv, bytes).value
               mac == HmacSha256(macKey, iv \o encrypted)
               result == [i \in 1 .. (1 + 16 + 32 + Len(encrypted)) |->
                            IF i = 1 THEN ENCRYPTION_TYPE
                            ELSE IF i <= 17 THEN iv[i - 1]
                            ELSE IF i <= 49 THEN mac[i - 17]
                            ELSE encrypted[i - 49]]
           IN  Returned(ToBase64(result))

\* data.json when it is a JSON object
JsonFile(d) == [file |-> TRUE, entries |-> d]

\* readCliData(): the parsed object, {} when the file cannot be read
readCliData == IF dataJson.file THEN dataJson.entries ELSE << >>

\* writeCliData(data)
writeCliData(d) == dataJson' = JsonFile(d)

\* `__PROTECTED__${userId}_user_auto`
StorageKey(userId) == << "__PROTECTED__", userId, "_user_auto" >>

\* the object d with d[k] = v
WithEntry(d, k, v) ==
  [x \in (DOMAIN d) \cup {k} |-> IF x = k THEN v ELSE d[x]]

\* the object d after delete d[k]
WithoutEntry(d, k) == [x \in (DOMAIN d) \ {k} |-> d[x]]

\* storeUserKeyForSession writing the new entry alone
storeUserKeyForSessionFresh(userKeyB64, userId, sessionKey, iv) ==
  LET userKeyBytes == FromBase64(userKeyB64)
      encryptedUserKey == encryptWithSessionKey(userKeyBytes, sessionKey, iv)
  IN  IF encryptedUserKey.ok
      THEN /\ writeCliData(WithEntry(<< >>, StorageKey(userId),
                                     encryptedUserKey.value))
           /\ ret' = [op |-> "store", userId |-> userId,
                      sessionKey |-> sessionKey, ok |-> TRUE,
                      value |-> << >>]
      ELSE /\ UNCHANGED dataJson
           /\ ret' = [op |-> "store", userId |-> userId,
                      sessionKey |-> sessionKey, ok |-> FALSE,
                      value |-> encryptedUserKey.error]

\* storeUserKeyForSession(userKeyB64, userId, sessionKey)
storeUserKeyForSession(userKeyB64, userId, sessionKey, iv) ==
  LET userKeyBytes == FromBase64(userKeyB64)
      encryptedUserKey == encryptWithSessionKey(userKeyBytes, sessionKey, iv)
  IN  IF encryptedUserKey.ok
      THEN /\ writeCliData(WithEntry(readCliData, StorageKey(userId),
                                     encryptedUserKey.value))
           /\ ret' = [op |-> "store", userId |-> userId,
                      sessionKey |-> sessionKey, ok |-> TRUE,
                      value |-> << >>]
      ELSE /\ UNCHANGED dataJson
           /\ ret' = [op |-> "store", userId |-> userId,
                      sessionKey |-> sessionKey, ok |-> FALSE,
                      value |-> encryptedUserKey.error]

\* clearStoredUserKey(userId)
clearStoredUserKey(userId) ==
  /\ writeCliData(WithoutEntry(readCliData, StorageKey(userId)))
  /\ ret' = [op |-> "clear", userId |-> userId, sessionKey |-> << >>,
             ok |-> TRUE, value |-> << >>]

\* extractUserKey(userId, sessionKey) of the end-to-end tests: the reader of
\* what storeUserKeyForSession writes
extractUserKey(userId, sessionKey) ==
  LET d == dataJson.entries
      storageKey == StorageKey(userId)
  IN  IF ~dataJson.file
      THEN Throws(ErrNoFile)
      ELSE IF storageKey \notin DOMAIN d
      THEN Throws(ErrNoEntry)
      ELSE
      LET blob == FromBase64(d[storageKey])
      IN  IF Len(blob) < 49 THEN Throws(ErrBlobTooShort)
          ELSE IF blob[1] # 2 THEN Throws(ErrEncType)
          ELSE
          LET iv == SubSeq(blob, 2, 17)
              mac == SubSeq(blob, 18, 49)
              ciphertext == SubSeq(blob, 50, Len(blob))
              keyBytes == FromBase64(sessionKey)
          IN  IF Len(keyBytes) # 64 THEN Throws(ErrSessionKey)
              ELSE
              LET encKey == SubSeq(keyBytes, 1, 32)
                  macKey == SubSeq(keyBytes, 33, 64)
                  expectedMac == HmacSha256(macKey, iv \o ciphertext)
              IN  IF mac # expectedMac THEN Throws(ErrHmac)
                  ELSE LET decrypted == AesCbcDecrypt(encKey, iv, ciphertext)
                       IN  IF decrypted.ok
                           THEN Returned(ToBase64(decrypted.value))
                           ELSE decrypted

\* encryptMessage(message): the envelope for the bytes of the message, iv
\* the value of randomBytes(16)
encryptMessage(bytes, sharedSecret, iv) ==
  LET encrypted == AesCbcEncrypt(SubSeq(sharedSecret, 1, 32), iv, bytes).value
      macKey == SubSeq(sharedSecret, 33, 64)
      mac == HmacSha256(macKey, iv \o encrypted)
  IN  [encryptionType |-> 2,
       iv |-> ToBase64(iv),
       data |-> ToBase64(encrypted),
       mac |-> ToBase64(mac)]

\* handleEncryptedMessage(rawMessage) up to JSON.parse: the decrypted bytes
decryptMessage(encMsg, sharedSecret) ==
  LET iv == FromBase64(encMsg.iv)
      bytes == FromBase64(encMsg.data)
      mac == FromBase64(encMsg.mac)
      encKey == SubSeq(sharedSecret, 1, 32)
      macKey == SubSeq(sharedSecret, 33, 64)
      expectedMac == HmacSha256(macKey, iv \o bytes)
  IN  IF mac # expectedMac THEN Throws(ThrownIntegrity)
      ELSE AesCbcDecrypt(encKey, iv, bytes)

\* ------------------------------------------------ inputs of the storage
\* the bytes of two session keys as generateSessionKey() makes them
KeyBytesA == [i \in 1 .. SESSION_KEY_LENGTH |-> i]

KeyBytesB == [i \in 1 .. SESSION_KEY_LENGTH |-> 255 - (3 * i)]

\* a session key that decodes to 63 bytes
ShortSessionKey == ToBase64(SubSeq(KeyBytesA, 1, SESSION_KEY_LENGTH - 1))

SessionKeys == {ToBase64(KeyBytesA), ToBase64(KeyBytesB), ShortSessionKey}

\* values of randomBytes(16)
IVs == {[i \in 1 .. IV_LENGTH |-> 15 * i], [i \in 1 .. IV_LENGTH |-> 255 - i]}

\* the lengths of the user keys: 64 bytes, none, and one block (the key of
\* the mock is 17 bytes)
UserKeyLengths == {0, 16, 64}

\* user keys as the Desktop app encodes them
CanonicalUserKeys ==
  {ToBase64([i \in 1 .. n |-> (7 * i) % 256]) : n \in UserKeyLengths}

\* the default user key of the mock Desktop app, "test-session-key-base64",
\* which is not the base64 text of any bytes
MockUserKey ==
  << "t", "e", "s", "t", "-", "s", "e", "s", "s", "i", "o", "n", "-", "k",
     "e", "y", "-", "b", "a", "s", "e", "6", "4" >>

UserKeys == CanonicalUserKeys \cup {MockUserKey}

\* an entry of data.json that belongs to bw
ActiveAccount == << "global_account_activeAccountId" >>

OtherEntries == [x \in {ActiveAccount} |-> "user-1"]

InitStorage ==
  /\ InitClient
  /\ budget = Framing
  /\ host = LinuxHost
  /\ NoTraffic
  /\ dataJson \in {NoFile, JsonFile(OtherEntries)}
  /\ ret = NoRet
  /\ written = [u \in UserIds |-> NotWritten]
  /\ given \in [userKey : UserKeys, sessionKey : SessionKeys, iv : IVs]
  /\ NoMain

\* the application stores the user key under the session key for user u
Store(u) ==
  /\ storeUserKeyForSession(given.userKey, u, given.sessionKey, given.iv)
  /\ written' = IF ret'.ok
                THEN [written EXCEPT ![u] = [userKey |-> given.userKey,
                                            sessionKey |-> given.sessionKey]]
                ELSE written
  /\ UNCHANGED << budget, host, stream, wire, messageBuffer, delivered,
                  given, lifecycle,
                  answer >>
  /\ UNCHANGED << client, messageHandler >>
  /\ UNCHANGED cli

Clear(u) ==
  /\ clearStoredUserKey(u)
  /\ written' = [written EXCEPT ![u] = NotWritten]
  /\ UNCHANGED << budget, host, stream, wire, messageBuffer, delivered,
                  given, lifecycle,
                  answer >>
  /\ UNCHANGED << client, messageHandler >>
  /\ UNCHANGED cli

\* the stored user key of u is read back with session key K
Extract(u, K) ==
  /\ LET r == extractUserKey(u, K)
     IN  ret' = [op |-> "extract", userId |-> u, sessionKey |-> K,
                 ok |-> r.ok, value |-> IF r.ok THEN r.value ELSE r.error]
  /\ UNCHANGED << dataJson, written >>
  /\ UNCHANGED << budget, host, stream, wire, messageBuffer, delivered,
                  given, lifecycle,
                  answer >>
  /\ UNCHANGED << client, messageHandler >>
  /\ UNCHANGED cli

\* the bytes of the user key are encrypted as a message for the channel
\* and decrypted as a received message is
Loopback ==
  /\ LET sharedSecret == FromBase64(given.sessionKey)
         r == decryptMessage(
                encryptMessage(FromBase64(given.userKey), sharedSecret,
                               given.iv),
                sharedSecret)
     IN  /\ Len(sharedSecret) = SESSION_KEY_LENGTH
         /\ ret' = [op |-> "message", userId |-> "",
                    sessionKey |-> given.sessionKey, ok |-> r.ok,
                    value |-> IF r.ok THEN ToBase64(r.value) ELSE r.error]
  /\ UNCHANGED << dataJson, written >>
  /\ UNCHANGED << budget, host, stream, wire, messageBuffer, delivered,
                  given, lifecycle,
                  answer >>
  /\ UNCHANGED << client, messageHandler >>
  /\ UNCHANGED cli

\* crypto.privateDecrypt with the channel's private key: the bytes the peer
\* encrypted with the public key it was sent, whatever their number
privateDecrypt(encrypted) == Returned(encrypted.plaintext)

\* handleSetupEncryption(message) on a channel whose key pair the message
\* was made for: this.secureChannel.sharedSecret = decrypted
installSharedSecret(sharedSecret) ==
  LET decrypted == privateDecrypt([plaintext |-> FromBase64(sharedSecret)])
  IN  ret' = [op |-> "setupEncryption", userId |-> "",
              sessionKey |-> sharedSecret, ok |-> decrypted.ok,
              value |-> ToBase64(decrypted.value)]

\* a setupEncryption response arrives whose secret the peer chose
SetupEncryption ==
  /\ installSharedSecret(given.sessionKey)
  /\ UNCHANGED << dataJson, written >>
  /\ UNCHANGED << budget, host, stream, wire, messageBuffer, delivered,
                  given, lifecycle,
                  answer >>
  /\ UNCHANGED << client, messageHandler >>
  /\ UNCHANGED cli

NextStorage ==
  \/ \E u \in UserIds : Store(u)
  \/ \E u \in UserIds : Clear(u)
  \/ \E u \in UserIds, K \in SessionKeys : Extract(u, K)
  \/ Loopback
  \/ SetupEncryption

\* ------------------------------------------------------------ passthrough
PASSTHROUGH_COMMANDS ==
  {"login", "logout", "lock", "config", "update", "completion", "status",
   "serve"}

PASSTHROUGH_FLAGS == {"--help", "-h", "--version", "-v"}

\* args.includes(x)
Includes(a, x) == \E i \in 1 .. Len(a) : a[i] = x

\* variant: the flags are looked for in the first argument only
isPassthroughCommandFirstArg(a) ==
  IF Len(a) = 0 THEN TRUE
  ELSE IF a[1] \in PASSTHROUGH_FLAGS THEN TRUE
  ELSE IF a[1] \in PASSTHROUGH_COMMANDS THEN TRUE
  ELSE FALSE

isPassthroughCommand(a) ==
  IF Len(a) = 0 THEN TRUE
  ELSE IF \E i \in 1 .. Len(a) : a[i] \in PASSTHROUGH_FLAGS THEN TRUE
  ELSE IF a[1] \in PASSTHROUGH_COMMANDS THEN TRUE
  ELSE FALSE

\* ------------------------------------------------------------------ main()
\* BiometricsStatus.Available
Available == 0

\* the values of response.response of a status response: the members of
\* BiometricsStatus, and -1 for a response without the field
BiometricsStatuses == -1 .. 9

\* packageJson.version
Version == [line |-> "version", key |-> << >>]

\* the lines of handleUnlock: the session key alone with --raw, the export
\* instructions without
UnlockLines(a, sessionKey) ==
  [line |-> IF Includes(a, "--raw") THEN "raw" ELSE "export",
   key |-> sessionKey]

\* writeLn(s)
writeLn(e, s) == stdout' = IF e.BW_QUIET THEN stdout ELSE Append(stdout, s)

\* executeBw(args, sessionKey) up to spawn: the child gets the environment
\* of the process, and BW_SESSION = sessionKey when one is given (<< >> when
\* none is)
executeBw(a, e, sessionKey) ==
  bw' = [spawned |-> TRUE, args |-> a, session |-> sessionKey,
         env |-> e]

\* getActiveUserId(): "" for null
getActiveUserId ==
  IF ActiveAccount \in DOMAIN readCliData
  THEN readCliData[ActiveAccount]
  ELSE ""

\* --quiet and --nointeraction mirrored to process.env
Mirrored(e, a) ==
  [e EXCEPT !.BW_QUIET = @ \/ Includes(a, "--quiet"),
            !.BW_NOINTERACTION = @ \/ Includes(a, "--nointeraction")]

\* variant: BW_SESSION skips the attempt of every command
SkipsBiometricsAlways(e, a) ==
  \/ e.BW_SESSION
  \/ e.BW_NOINTERACTION
  \/ isPassthroughCommand(a)

\* variant: BW_SESSION is not looked at
SkipsBiometricsNoSession(e, a) ==
  \/ e.BW_NOINTERACTION
  \/ isPassthroughCommand(a)

\* the condition of main() under which bw is run at once
SkipsBiometrics(e, a) ==
  \/ e.BW_SESSION /\ ~(Len(a) > 0 /\ a[1] = "unlock")
  \/ e.BW_NOINTERACTION
  \/ isPassthroughCommand(a)

\* the storage and the client are left alone
NoClientStep ==
  /\ UNCHANGED << client, messageHandler >>
  /\ UNCHANGED << budget, host, stream, wire, messageBuffer, delivered >>

\* variant: bw is given the stored session key of the last run
FallBackWithKey(userId) ==
  /\ attempt' = [called |-> TRUE, returned |-> TRUE, success |-> FALSE,
                 userKeyB64 |-> << >>, userId |-> userId]
  /\ executeBw(args, processEnv, given.sessionKey)
  /\ mainPc' = "done"
  /\ UNCHANGED << args, processEnv, stdout, dataJson, ret, written, given, lifecycle >>
  /\ UNCHANGED << budget, host, stream, wire, messageBuffer, delivered >>

\* attemptBiometricUnlock() returns { success: false } and main() runs bw
\* with the arguments it was given
FallBack(userId) ==
  /\ attempt' = [called |-> TRUE, returned |-> TRUE, success |-> FALSE,
                 userKeyB64 |-> << >>, userId |-> userId]
  /\ executeBw(args, processEnv, << >>)
  /\ mainPc' = "done"
  /\ UNCHANGED << args, processEnv, stdout, dataJson, ret, written, given, lifecycle >>
  /\ UNCHANGED << budget, host, stream, wire, messageBuffer, delivered >>

\* attemptBiometricUnlock() returns the user key; main() generates a session
\* key, stores the user key under it and runs bw with it, or prints it for
\* the unlock command
Unlocked(userKey, userId) ==
  LET sessionKey == given.sessionKey
  IN  /\ attempt' = [called |-> TRUE, returned |-> TRUE, success |-> TRUE,
                     userKeyB64 |-> userKey, userId |-> userId]
      /\ storeUserKeyForSession(userKey, userId, sessionKey, given.iv)
      /\ written' = IF ret'.ok
                    THEN [written EXCEPT ![userId] =
                            [userKey |-> userKey, sessionKey |-> sessionKey]]
                    ELSE written
      /\ IF ~ret'.ok
         THEN mainPc' = "threw" /\ UNCHANGED << bw, stdout >>
         ELSE /\ mainPc' = "done"
              /\ IF args[1] = "unlock"
                 THEN /\ writeLn(processEnv, UnlockLines(args, sessionKey))
                      /\ UNCHANGED bw
                 ELSE /\ executeBw(args, processEnv, sessionKey)
                      /\ UNCHANGED stdout
      /\ UNCHANGED << args, processEnv, given, lifecycle >>
      /\ UNCHANGED << budget, host, stream, wire, messageBuffer, delivered >>

\* main(args) up to its first await
MainStart ==
  /\ mainPc = "start"
  /\ IF Includes(args, "--bwbio-version")
     THEN /\ writeLn(processEnv, Version)
          /\ mainPc' = "done"
          /\ UNCHANGED << args, processEnv, attempt, bw >>
          /\ UNCHANGED << dataJson, ret, written, given, lifecycle,
                          answer >>
          /\ NoClientStep
     ELSE
     LET e == Mirrored(processEnv, args)
         userId == getActiveUserId
     IN  /\ processEnv' = e
         /\ UNCHANGED << args, stdout, dataJson, ret, written, given, lifecycle,
                         answer >>
         /\ UNCHANGED << budget, host, stream, wire, messageBuffer,
                         delivered >>
         /\ IF SkipsBiometrics(e, args)
            THEN /\ executeBw(args, e, << >>)
                 /\ mainPc' = "done"
                 /\ UNCHANGED attempt
                 /\ UNCHANGED << client, messageHandler >>
            ELSE IF userId = ""
            THEN /\ attempt' = [called |-> TRUE, returned |-> TRUE,
                                success |-> FALSE, userKeyB64 |-> << >>,
                                userId |-> ""]
                 /\ executeBw(args, e, << >>)
                 /\ mainPc' = "done"
                 /\ UNCHANGED << client, messageHandler >>
            ELSE /\ attempt' = [called |-> TRUE, returned |-> FALSE,
                                success |-> FALSE, userKeyB64 |-> << >>,
                                userId |-> userId]
                 /\ connect
                 /\ mainPc' = "connect"
                 /\ UNCHANGED bw

\* attemptBiometricUnlock() resumes after `await client.connect()`
MainAfterConnect ==
  /\ MicroOK
  /\ mainPc = "connect"
  /\ conn.state = "idle"
  /\ IF connected
     THEN /\ callCommandStart
          /\ mainPc' = "status"
          /\ UNCHANGED << args, processEnv, attempt, bw, stdout >>
          /\ UNCHANGED << dataJson, ret, written, given, lifecycle,
                          answer >>
          /\ UNCHANGED << budget, host, stream, wire, messageBuffer,
                          delivered >>
     ELSE /\ clientDisconnect
          /\ FallBack(attempt.userId)
          /\ UNCHANGED answer

\* variant: the unlock is requested whatever the status
UnlocksWhateverStatus ==
  /\ MicroOK
  /\ mainPc = "status"
  /\ Returns(0)
  /\ \E userStatus \in BiometricsStatuses :
       IF outcome[0].resolved > 0
       THEN /\ callCommandStart
            /\ mainPc' = "unlock"
            /\ answer' = [answer EXCEPT !.hasStatus = TRUE,
                                        !.userStatus = userStatus]
            /\ UNCHANGED << args, processEnv, attempt, bw, stdout >>
            /\ UNCHANGED << dataJson, ret, written, given, lifecycle >>
            /\ UNCHANGED << budget, host, stream, wire, messageBuffer,
                            delivered >>
       ELSE /\ clientDisconnect
            /\ FallBack(attempt.userId)
            /\ UNCHANGED answer

\* attemptBiometricUnlock() resumes after
\* `await client.getBiometricsStatusForUser(userId)`; userStatus is the
\* field response of the response
MainAfterStatus ==
  /\ MicroOK
  /\ mainPc = "status"
  /\ Returns(0)
  /\ \E userStatus \in BiometricsStatuses :
       IF outcome[0].resolved > 0 /\ userStatus = Available
       THEN /\ callCommandStart
            /\ mainPc' = "unlock"
            /\ answer' = [answer EXCEPT !.hasStatus = TRUE,
                                        !.userStatus = userStatus]
            /\ UNCHANGED << args, processEnv, attempt, bw, stdout >>
            /\ UNCHANGED << dataJson, ret, written, given, lifecycle >>
            /\ UNCHANGED << budget, host, stream, wire, messageBuffer,
                            delivered >>
       ELSE /\ clientDisconnect
            /\ FallBack(attempt.userId)
            /\ answer' = IF outcome[0].resolved > 0
                         THEN [answer EXCEPT !.hasStatus = TRUE,
                                             !.userStatus = userStatus]
                         ELSE answer

\* attemptBiometricUnlock() resumes after
\* `await client.unlockWithBiometricsForUser(userId)`; response and
\* userKeyB64 are the fields of the response
MainAfterUnlock ==
  /\ MicroOK
  /\ mainPc = "unlock"
  /\ Returns(1)
  /\ \E response \in BOOLEAN, userKeyB64 \in {<< >>, given.userKey} :
       LET userKey == IF response THEN userKeyB64 ELSE << >>
       IN  /\ clientDisconnect
           /\ answer' = IF outcome[1].resolved > 0
                        THEN [answer EXCEPT !.hasKey = TRUE,
                                            !.userKey = userKey]
                        ELSE answer
           /\ IF outcome[1].resolved > 0 /\ userKey # << >>
              THEN Unlocked(userKey, attempt.userId)
              ELSE FallBack(attempt.userId)

\* ----------------------------------------------------- inputs of main()
\* the application makes the two calls of attemptBiometricUnlock on a client
\* that may connect again
Unlocking == [calls |-> 2, sockets |-> MaxSockets + MaxReconnects,
              secrets |-> MaxSecrets]

\* argument lists: none, commands that need the vault, with and without
\* flags, commands that do not, and the flags of bwbio
ArgLists ==
  {<< >>, << "unlock" >>, << "unlock", "--raw" >>, << "list", "items" >>,
   << "frobnicate" >>, << "sync", "login" >>}
  \cup {<< c >> : c \in PASSTHROUGH_COMMANDS}
  \cup {<< f >> : f \in PASSTHROUGH_FLAGS}
  \cup {<< c, f >> : c \in {"list", "unlock"}, f \in PASSTHROUGH_FLAGS}
  \cup {<< c, f >> : c \in {"list", "unlock"},
                     f \in {"--nointeraction", "--quiet", "--bwbio-version"}}
  \cup {<< "--bwbio-version" >>, << "--help", "--bwbio-version" >>}

\* the argument lists with which an attempt that opens a connection is
\* followed; with the others main() is followed up to an attempt that
\* returns at once
FollowedArgLists == {<< "unlock" >>, << "list", "items" >>}

InitMain ==
  /\ InitClient
  /\ budget = Unlocking
  /\ host = LinuxHost
  /\ NoTraffic
  /\ dataJson \in {NoFile, JsonFile(OtherEntries)}
  /\ ret = NoRet
  /\ written = [u \in UserIds |-> NotWritten]
  /\ given = [userKey |-> ToBase64(KeyBytesB),
              sessionKey |-> ToBase64(KeyBytesA),
              iv |-> [i \in 1 .. IV_LENGTH |-> 15 * i]]
  /\ args \in ArgLists
  /\ processEnv \in [BW_SESSION : BOOLEAN, BW_NOINTERACTION : BOOLEAN,
                     BW_QUIET : {FALSE}]
  /\ \/ args \in FollowedArgLists
     \/ getActiveUserId = ""
     \/ SkipsBiometrics(Mirrored(processEnv, args), args)
     \/ Includes(args, "--bwbio-version")
  /\ mainPc = "start"
  /\ attempt = NoAttempt
  /\ answer = NoAnswer
  /\ bw = NoBw
  /\ stdout = << >>

NextMain ==
  \/ MainStart
  \/ MainAfterConnect
  \/ MainAfterStatus
  \/ MainAfterUnlock
  \/ ConnectReturn
  \/ \E c \in Calls : SendAfterConnect(c)
  \/ \E c \in Calls : SendConnectFailed(c)
  \/ \E c \in Calls : EncryptAfterSetup(c)
  \/ \E c \in Calls : PostCommand(c)
  \/ \E c \in Calls : CallTimeout(c)
  \/ \E c \in Calls : SetupTimeout(c)
  \/ \E s \in Socks : SocketConnect(s)
  \/ \E s \in Socks : SocketFail(s)
  \/ \E s \in Socks : PeerClose(s)
  \/ \E s \in Socks : SocketClose(s)
  \/ Receive
  \/ EndOfChunk

\* ------------------------------------------------------------------- Next
Next ==
  \/ callCommand
  \/ Connect
  \/ disconnect
  \/ ConnectReturn
  \/ \E c \in Calls : SendAfterConnect(c)
  \/ \E c \in Calls : SendConnectFailed(c)
  \/ \E c \in Calls : EncryptAfterSetup(c)
  \/ \E c \in Calls : PostCommand(c)
  \/ \E c \in Calls : CallTimeout(c)
  \/ \E c \in Calls : SetupTimeout(c)
  \/ \E s \in Socks : SocketConnect(s)
  \/ \E s \in Socks : SocketFail(s)
  \/ \E s \in Socks : PeerClose(s)
  \/ \E s \in Socks : SocketClose(s)
  \/ Receive
  \/ EndOfChunk

Spec == Init /\ [][Next]_vars

SpecReconnect == InitReconnect /\ [][Next]_vars

SpecRekey == InitRekey /\ [][Next]_vars

SpecFraming == InitFraming /\ [][NextFraming]_vars

SpecFallback == InitFallback /\ [][Next]_vars

SpecStorage == InitStorage /\ [][NextStorage]_vars

SpecMain == InitMain /\ [][NextMain]_vars

TypeOK ==
  /\ connected \in BOOLEAN
  /\ connecting \in BOOLEAN
  /\ messageId \in 0 .. (2 * MaxCalls)
  /\ socket \in Socks \cup {NoSock}
  /\ numCalls \in 0 .. MaxCalls
  /\ budget \in {Calling, Reconnecting, Rekeying, Framing, Unlocking}
  /\ lifecycle \in [Socks -> [established : BOOLEAN, notified : 0 .. 2]]
  /\ answer \in [hasStatus : BOOLEAN, userStatus : BiometricsStatuses,
                  hasKey : BOOLEAN, userKey : {<< >>, given.userKey}]
  /\ \A c \in Calls : pc[c] \in {"idle", "connWait", "connOk", "connFail",
                                 "hsWait", "post", "done"}

\* ------------------------------------------------------------------ claims
\* the message reaches processDecryptedMessage: it is addressed to this
\* instance, a secret is installed and the payload is unencrypted or carries
\* a valid mac
Decrypts(msg) ==
  /\ msg.command = "response"
  /\ msg.appId = MyAppId
  /\ msg.message.kind # "none"
  /\ secureChannel.secret # NoSecret
  /\ msg.message.kind = "encrypted" =>
        (msg.message.secret = secureChannel.secret /\ ~msg.message.tampered)

\* its timestamp is within the validity window
IsFresh(msg) ==
  /\ Decrypts(msg)
  /\ msg.message.hasTs
  /\ Abs(msg.message.skew) <= 10000

\* what kind of frame a received message is
KindOf(msg) ==
  IF /\ msg.appId # MyAppId
     /\ msg.command \in {"setupEncryption", "invalidateEncryption", "response"}
  THEN "foreign"
  ELSE IF msg.command # "response" THEN msg.command
  ELSE IF ~Decrypts(msg) THEN "undelivered"
  ELSE IF ~msg.message.hasTs THEN "untimed"
  ELSE IF ~IsFresh(msg) THEN "stale"
  ELSE IF msg.message.kind = "plain" THEN "fresh plaintext"
  ELSE "fresh"

Issued == 0 .. (numCalls - 1)

Pending(c) == c \in MapValues(callbacks)

\* C1: handling a transport disconnect event rejects each of the M pending
\* calls with the 'Disconnected' error and leaves the pending-call map empty,
\* the client not connected and the channel cleared.
C1_DisconnectRejectsAll ==
  [][\A s \in Socks :
       (SocketClose(s) /\ disconnectHandler) =>
          /\ callbacks' = EmptyMap
          /\ ~connected'
          /\ secureChannel' = NullChannel
          /\ \A c \in Calls :
                IF Pending(c)
                THEN /\ outcome'[c].rejected = outcome[c].rejected + 1
                     /\ outcome'[c].resolved = outcome[c].resolved
                     /\ outcome'[c].err = ErrDisconnected
                ELSE outcome'[c] = outcome[c]]_vars

\* both calls were pending at a disconnect event and were rejected by it
C1_Witness ==
  /\ callbacks = EmptyMap
  /\ ~connected
  /\ \A c \in Calls : /\ outcome[c].rejected = 1
                      /\ outcome[c].err = ErrDisconnected

\* C2: every call completes at most once: it leaves the pending map exactly
\* once, together with the single invocation of its resolver or rejecter.
C2_CompletesOnce ==
  \A c \in Calls :
    /\ outcome[c].resolved + outcome[c].rejected <= 1
    /\ outcome[c].removed = outcome[c].resolved + outcome[c].rejected
    /\ c \in Issued => Entries(callbacks, c) + outcome[c].removed = 1
    /\ c \notin Issued => Entries(callbacks, c) + outcome[c].removed = 0

\* one call was resolved by its response and another rejected by its timer
C2_Witness ==
  \E c, d \in Calls :
    /\ outcome[c].resolved = 1
    /\ outcome[d].rejected = 1
    /\ outcome[d].err = ErrTimedOut

SetupsSent == {m \in sent : m.command = "setupEncryption"}

\* C3: message ids handed out to callCommand calls and to setupEncryption
\* requests are strictly increasing and never reused; every entry of the
\* pending map is filed under the id of its own call.
C3_MessageIdsUnique ==
  /\ \A c \in Issued : mid[c] < messageId
  /\ \A c, d \in Issued : c < d => mid[c] < mid[d]
  /\ \A m \in SetupsSent : /\ m.mid < messageId
                           /\ \A c \in Issued : mid[c] # m.mid
  /\ \A m, n \in SetupsSent : m # n => m.mid # n.mid
  /\ \A i \in DOMAIN callbacks : mid[callbacks[i]] = i
  /\ \A c \in Calls : Entries(callbacks, c) <= 1

\* MaxCalls calls are outstanding at once and a handshake request was sent
C3_Witness ==
  /\ numCalls = MaxCalls
  /\ Cardinality(DOMAIN callbacks) = MaxCalls
  /\ SetupsSent # {}

\* C4: a valid, fresh response resolves exactly the pending call whose
\* messageId it carries, whatever the arrival order; one that matches no
\* pending call raises no error and changes neither map nor channel.
C4_CorrelationById ==
  [][KindOf(frame') = "fresh" =>
       IF \E c \in Calls : Pending(c) /\ mid[c] = frame'.message.messageId
       THEN \A c \in Calls :
              IF Pending(c) /\ mid[c] = frame'.message.messageId
              THEN /\ outcome'[c].resolved = outcome[c].resolved + 1
                   /\ outcome'[c].rejected = outcome[c].rejected
                   /\ outcome'[c].by.messageId = mid[c]
                   /\ ~Pending(c)'
              ELSE /\ outcome'[c] = outcome[c]
                   /\ Pending(c)' = Pending(c)
       ELSE /\ log' \notin Thrown
            /\ UNCHANGED << callbacks, outcome, timer, secureChannel,
                            connected, socket, sock, hs >>]_vars

\* the later call was resolved by its response while the earlier one is still
\* pending, and a second response to the resolved call was dropped
C4_Witness ==
  /\ numCalls = 2
  /\ outcome[1].resolved = 1
  /\ outcome[1].by.messageId = mid[1]
  /\ Pending(0)
  /\ KindOf(frame) = "fresh"
  /\ log = LogNoCallback

\* C5: every command other than the setupEncryption request is transmitted
\* as an encrypted envelope (encryptionType 2) under the shared secret that
\* is installed when it is sent; only setupEncryption goes out in plaintext.
C5_HandshakeFirst ==
  \A m \in sent :
    /\ m.command # "setupEncryption" =>
          /\ m.encryptionType = ENCRYPTION_TYPE
          /\ m.secret # NoSecret
          /\ m.installed = m.secret
    /\ m.encryptionType # ENCRYPTION_TYPE => m.command = "setupEncryption"

\* commands were sent, by both calls, after a handshake request
C5_Witness ==
  /\ SetupsSent # {}
  /\ \A c \in Calls : \E m \in sent : m.command = "command" /\ m.mid = mid[c]

\* the effects of a protocol-fatal message with error e
TornDown(e) ==
  /\ secureChannel' = NullChannel
  /\ (secureChannel.present /\ hs[secureChannel.hs] = "pending") =>
        /\ hs'[secureChannel.hs] = "rejected"
        /\ hsErr'[secureChannel.hs] = e
  /\ \A c \in Calls :
        Pending(c) => /\ outcome'[c].rejected = outcome[c].rejected + 1
                      /\ outcome'[c].resolved = outcome[c].resolved
                      /\ outcome'[c].err = e
  /\ callbacks' = EmptyMap
  /\ socket' = NoSock
  /\ socket # NoSock => sock'[socket] = "destroyed"

\* C6: a wrongUserId message, whatever its appId, destroys the channel,
\* rejects the handshake waiter and every pending call with the account
\* mismatch error, empties the map, marks the client disconnected and
\* disconnects the transport.
C6_WrongUserId ==
  [][KindOf(frame') = "wrongUserId" =>
       (TornDown(ErrWrongUser) /\ ~connected')]_vars

\* a wrongUserId message for another app arrived during a handshake with a
\* call pending
C6_Witness ==
  /\ KindOf(frame) = "wrongUserId"
  /\ frame.appId = OtherAppId
  /\ \E c \in Calls : outcome[c].err = ErrWrongUser
  /\ \E c \in Calls : hs[c] = "rejected" /\ hsErr[c] = ErrWrongUser
  /\ callbacks = EmptyMap
  /\ socket = NoSock

\* C7: an invalidateEncryption message with this instance's appId destroys
\* the channel, rejects the handshake waiter and every pending call with the
\* channel-invalidated error, empties the map and disconnects the transport.
C7_InvalidateEncryption ==
  [][KindOf(frame') = "invalidateEncryption" => TornDown(ErrInvalidated)]_vars

\* an invalidateEncryption message arrived during a handshake with a call
\* pending
C7_Witness ==
  /\ KindOf(frame) = "invalidateEncryption"
  /\ \E c \in Calls : outcome[c].err = ErrInvalidated
  /\ \E c \in Calls : hs[c] = "rejected" /\ hsErr[c] = ErrInvalidated
  /\ callbacks = EmptyMap
  /\ socket = NoSock

\* everything but the record of the last frame
ClientState ==
  << connected, connecting, secureChannel, messageId, callbacks, socket, sock,
     messageHandler, disconnectHandler, conn, numCalls, pc, mid, timer, hs,
     hsErr, hsTimer, env, outcome, sent >>

\* C8: a setupEncryption, invalidateEncryption or default-dispatched message
\* with another appId leaves the whole client state unchanged and the
\* transport connected.
C8_AppIdFilter ==
  [][KindOf(frame') = "foreign" =>
       (UNCHANGED ClientState /\ log' \notin Thrown)]_vars

\* a message for another app was ignored while a call was pending
C8_Witness ==
  /\ KindOf(frame) = "foreign"
  /\ connected
  /\ callbacks # EmptyMap
  /\ \E s \in Socks : sock[s] = "open"

\* C9: a decrypted message whose timestamp differs from the current time by
\* more than 10,000 ms, in either direction, resolves and rejects no call and
\* raises no error; at exactly 10,000 ms it is accepted.
C9_Staleness ==
  [][/\ KindOf(frame') = "stale" =>
          /\ UNCHANGED << callbacks, outcome, timer >>
          /\ log' \notin Thrown
     /\ (/\ KindOf(frame') \in {"fresh", "fresh plaintext"}
         /\ Abs(frame'.message.skew) = 10000) =>
          \A c \in Calls :
            (Pending(c) /\ mid[c] = frame'.message.messageId) =>
               /\ outcome'[c].resolved = outcome[c].resolved + 1
               /\ outcome'[c].by = frame'.message]_vars

\* a message too old was dropped with a call pending, after another call was
\* resolved by a message exactly 10,000 ms off
C9_Witness ==
  /\ KindOf(frame) = "stale"
  /\ callbacks # EmptyMap
  /\ \E c \in Calls : /\ outcome[c].resolved = 1
                      /\ Abs(outcome[c].by.skew) = 10000

\* C10: every message that resolved a call carried a timestamp within
\* 10,000 ms of the time of its dispatch.
C10_ResolvedIsFresh ==
  \A c \in Calls :
    outcome[c].resolved > 0 =>
      /\ outcome[c].by.hasTs
      /\ Abs(outcome[c].by.skew) <= 10000

\* an encrypted payload for this instance, received with a secret installed,
\* whose mac does not verify under that secret
BadMac(msg) ==
  /\ msg.command = "response"
  /\ msg.appId = MyAppId
  /\ msg.message.kind = "encrypted"
  /\ secureChannel.secret # NoSecret
  /\ (msg.message.tampered \/ msg.message.secret # secureChannel.secret)

\* C11: an encrypted envelope whose mac does not verify under the installed
\* secret is rejected with the integrity error (the mac check comes before
\* decryption); it resolves no call and leaves the pending map, the shared
\* secret and the connected flag unchanged.
C11_Integrity ==
  [][BadMac(frame') =>
       /\ log' = ThrownIntegrity
       /\ UNCHANGED << callbacks, outcome, timer, secureChannel, connected,
                       socket, sock, hs, hsErr >>]_vars

\* a tampered response to a pending call was rejected and the call is still
\* pending on an established channel
C11_Witness ==
  /\ BadMac(frame)
  /\ frame.message.tampered
  /\ log = ThrownIntegrity
  /\ connected
  /\ \E c \in Calls : Pending(c) /\ mid[c] = frame.message.messageId

\* C12: a call is resolved only by a payload that arrived encrypted and whose
\* mac verified; an inner message delivered unencrypted resolves no call.
C12_OnlyAuthenticated ==
  \A c \in Calls :
    outcome[c].resolved > 0 =>
      /\ outcome[c].by.kind = "encrypted"
      /\ ~outcome[c].by.tampered

\* C13: when the deadline timer of a pending call fires, exactly that call is
\* removed and rejected with the timeout error; every other call and its
\* timer, the shared secret, the connected flag and the transport are
\* unchanged, so a later call can still be sent and resolved.
C13_TimeoutIsLocal ==
  [][\A c \in Calls :
       (CallTimeout(c) /\ MapHas(callbacks, mid[c])) =>
          /\ callbacks' = MapDelete(callbacks, mid[c])
          /\ outcome'[c] = Rejected(outcome[c], ErrTimedOut, 1)
          /\ \A d \in Calls \ {c} : /\ outcome'[d] = outcome[d]
                                     /\ timer'[d] = timer[d]
          /\ UNCHANGED << secureChannel, connected, socket, sock, hs >>]_vars

\* one call timed out and a call with a later id was sent and resolved under
\* the secret of the only handshake made
C13_Witness ==
  \E c, d \in Calls :
    /\ mid[c] < mid[d]
    /\ outcome[c].err = ErrTimedOut
    /\ outcome[d].resolved = 1
    /\ \E m \in sent : m.command = "command" /\ m.mid = mid[d]
    /\ Cardinality(SetupsSent) = 1
    /\ secureChannel.secret # NoSecret
    /\ connected

\* C14: when the key exchange timer of a handshake fires and no shared
\* secret is installed, the caller waiting on that handshake is rejected with
\* the setup timeout error.
C14_HandshakeTimeoutRejects ==
  [][\A c \in Calls :
       (SetupTimeout(c) /\ hs[c] = "pending"
                        /\ secureChannel.secret = NoSecret) =>
          /\ hs'[c] = "rejected"
          /\ hsErr'[c] = ErrSetupTimedOut]_vars

\* send() of call c ends without its command having been written
SendFailed(c) ==
  /\ pc[c] \in {"connFail", "hsWait", "post"}
  /\ pc'[c] = "done"
  /\ \A m \in sent' : ~(m.command = "command" /\ m.mid = mid[c])

\* the error send() of call c is rejected with
SendError(c) ==
  CASE pc[c] = "connFail" -> ErrConnectFailed
    [] pc[c] = "post" -> ErrNotConnected
    [] pc[c] = "hsWait" /\ hs[c] = "rejected" -> hsErr[c]
    [] OTHER -> ErrTypeError

\* C15: when the transmission of a call's command fails (connect failure,
\* rejected handshake, write on an unusable socket), a call still pending is
\* rejected once with that error; its timer is cancelled and no entry of it
\* remains in the pending map.
C15_SendFailureRejects ==
  [][\A c \in Calls :
       SendFailed(c) =>
          /\ ~Pending(c)'
          /\ ~timer'[c]
          /\ IF Pending(c)
             THEN outcome'[c] = Rejected(outcome[c], SendError(c), 1)
             ELSE outcome'[c] = outcome[c]]_vars

\* one call was rejected because its handshake timed out and another because
\* the socket was not usable
C15_Witness ==
  \E c, d \in Calls :
    /\ pc[c] = "done" /\ pc[d] = "done"
    /\ outcome[c].rejected = 1 /\ outcome[c].err = ErrSetupTimedOut
    /\ outcome[d].rejected = 1 /\ outcome[d].err = ErrNotConnected
    /\ callbacks = EmptyMap
    /\ ~timer[c] /\ ~timer[d]

InFlight == {s \in Socks : sock[s] = "connecting"}

\* C16: while the client is connected or connecting, no step (a connect()
\* call in particular) creates a socket, and a connect() call changes
\* nothing at all; at most one connection attempt is in flight, and only
\* while the connecting flag is set.
C16_ConnectIdempotent ==
  [][/\ (connected \/ connecting) =>
          /\ \A s \in Socks : sock[s] = "unused" => sock'[s] = "unused"
          /\ Connect => UNCHANGED ClientState
     /\ Cardinality(InFlight') <= 1
     /\ InFlight' # {} => connecting']_vars

\* after a teardown the client is connecting again, on a second socket, with
\* no other attempt in flight
C16_Witness ==
  /\ connecting
  /\ InFlight = {1}
  /\ sock[0] \in {"destroyed", "closed"}

\* C17: disconnect() can be called in every state in which the application
\* runs; it throws nothing and leaves the client not connected, without a
\* channel or shared secret, and the transport without a socket.
C17_DisconnectSafe ==
  /\ [](~inChunk => ENABLED disconnect)
  /\ [][disconnect =>
          /\ ~connected'
          /\ secureChannel' = NullChannel
          /\ socket' = NoSock
          /\ \A s \in Socks : sock'[s] = "open" => (sock[s] = "open" /\ s # socket)
          /\ log' \notin Thrown]_vars

\* disconnect() was called on an established channel, after a command was
\* sent, with a call still pending
C17_Witness ==
  /\ ~connected
  /\ secureChannel = NullChannel
  /\ socket = NoSock
  /\ sock[0] = "destroyed"
  /\ callbacks # EmptyMap
  /\ \E m \in sent : m.command = "command"

\* the bytes of the stream that have arrived
Arrived == Len(Encoded(stream, Len(stream))) - Len(wire)

\* the number of frames of the stream that have arrived completely
Complete ==
  Cardinality({n \in 1 .. Len(stream) : Len(Encoded(stream, n)) <= Arrived})

\* the bytes that have arrived of the frame that is not complete yet
Partial ==
  SubSeq(Encoded(stream, Len(stream)),
         Len(Encoded(stream, Complete)) + 1, Arrived)

\* the values of the first n frames that carry one
RECURSIVE ValuesOf(_)
ValuesOf(n) ==
  IF n = 0 THEN << >>
  ELSE IF stream[n].msg = NotJson
       THEN ValuesOf(n - 1)
       ELSE Append(ValuesOf(n - 1), stream[n].msg)

\* C18: when every frame of the stream carries the text of a JSON value,
\* then however the bytes are cut into chunks the handler has been invoked
\* with exactly the values of the frames that have arrived completely, in
\* order, and the buffer holds exactly the bytes of the incomplete frame.
C18_Framing ==
  (\A n \in 1 .. Len(stream) : stream[n].msg # NotJson) =>
     /\ delivered = [n \in 1 .. Complete |-> stream[n].msg]
     /\ messageBuffer = Partial

\* two different values have arrived and were delivered in order
C18_Witness ==
  /\ Len(stream) = 2
  /\ stream[1].msg = JsonNumber(11)
  /\ stream[2].msg = JsonObject
  /\ wire = << >>
  /\ delivered = << JsonNumber(11), JsonObject >>
  /\ messageBuffer = << >>

\* C19: a frame whose payload is not the text of a JSON value is taken out
\* of the buffer without a handler call, and the frames after it are
\* delivered: in every state the handler has been invoked with the values of
\* the complete frames that carry one, and the buffer holds the bytes of the
\* incomplete frame only.
C19_BadJsonDropped ==
  (\E n \in 1 .. Len(stream) : stream[n].msg = NotJson) =>
     /\ delivered = ValuesOf(Complete)
     /\ Len(delivered) < Len(stream)
     /\ messageBuffer = Partial

\* a frame with the payload "{" was dropped and the frame after it delivered
C19_Witness ==
  /\ Len(stream) = 2
  /\ stream[1].payload = << 123 >>
  /\ stream[2].msg = JsonNumber(1)
  /\ wire = << >>
  /\ delivered = << JsonNumber(1) >>
  /\ messageBuffer = << >>

\* the candidates in the order in which they are to be tried
InOrder ==
  IF host.override THEN << OverridePath >>
  ELSE IF host.platform = "darwin" THEN << sandboxedPath, nonSandboxedPath >>
  ELSE getSocketCandidates(host)

\* the sockets created for the candidates tried by the invocation cn
Attempts(cn) == {t \in Socks : cn.s - Len(cn.tried) < t /\ t <= cn.s}

\* C20: the candidates a connect() has tried are a prefix of the resolved
\* list (the override path alone if set, on macOS the sandboxed path before
\* the other one); a further candidate is tried only in the step in which
\* the attempt for the one before fails (error event or 5 s timeout); the
\* first connect event makes ipcSocket.connect() return and the client
\* connected, whatever failed before; it throws only after the attempt for
\* the last candidate failed, and the call that awaited it is rejected once
\* with the one error "Failed to connect to desktop app".
C20_EndpointFallback ==
  [][/\ conn'.tried = SubSeq(InOrder, 1, Len(conn'.tried))
     /\ Len(conn'.tried) <= Len(InOrder)
     /\ (conn.state = "ipc" /\ conn'.tried # conn.tried) =>
          /\ conn'.tried = Append(conn.tried, InOrder[Len(conn.tried) + 1])
          /\ SocketFail(conn.s)
          /\ sock'[conn.s] = "destroyed"
          /\ conn'.state = "ipc"
          /\ conn'.s # conn.s
          /\ sock'[conn'.s] = "connecting"
     /\ \A s \in Socks : (SocketConnect(s) /\ conn.state = "ipc") =>
          /\ s = conn.s
          /\ conn'.state = "ipcOk"
          /\ conn'.tried = conn.tried
          /\ socket' = s
     /\ (ConnectReturn /\ conn.state = "ipcOk") =>
          /\ connected'
          /\ log' = LogNone
          /\ conn.owner \in Calls => pc'[conn.owner] = "connOk"
     /\ (conn'.state = "ipcFail" /\ conn.state # "ipcFail") =>
          /\ conn'.tried = InOrder
          /\ socket' = NoSock
          /\ \A t \in Attempts(conn') : sock'[t] \in {"destroyed", "closed"}
     /\ \A c \in Calls : (SendConnectFailed(c) /\ Pending(c)) =>
          outcome'[c] = Rejected(outcome[c], ErrConnectFailed, 1)]_vars

\* on macOS the sandboxed path failed and the non-sandboxed path connected
C20_Witness ==
  /\ host = [override |-> FALSE, platform |-> "darwin"]
  /\ conn.state = "ipcOk"
  /\ conn.tried = << sandboxedPath, nonSandboxedPath >>
  /\ sock[0] \in {"destroyed", "closed"}
  /\ sock[1] = "open"
  /\ socket = 1

\* ------------------------------------------------------------------ C21
\* the canonical base64 text of the bytes that the text k decodes to
Canonical(k) == ToBase64(FromBase64(k))

\* the last operation read back, with the session key it was written under,
\* the user key that is stored for its user
ReadBack ==
  /\ ret.op = "extract"
  /\ written[ret.userId] # NotWritten
  /\ written[ret.userId].sessionKey = ret.sessionKey

\* C21 (as amended): what encryptWithSessionKey and encryptMessage make of a
\* payload under a 64-byte key decrypts under that key to the bytes of the
\* payload; extractUserKey applied to the store that storeUserKeyForSession
\* wrote for k returns the canonical base64 text of the bytes of k, which is
\* k when k is canonical
C21_RoundTrip ==
  /\ ReadBack =>
       /\ ret.ok
       /\ FromBase64(ret.value) = FromBase64(written[ret.userId].userKey)
       /\ ret.value = Canonical(written[ret.userId].userKey)
       /\ written[ret.userId].userKey \in CanonicalUserKeys =>
            ret.value = written[ret.userId].userKey
  /\ ret.op = "message" =>
       /\ ret.ok
       /\ FromBase64(ret.value) = FromBase64(given.userKey)

\* C21 (as stated): extractUserKey applied to the store written by
\* storeUserKeyForSession(k, u, K) returns k
C21_ReturnsK ==
  ReadBack => (ret.ok /\ ret.value = written[ret.userId].userKey)

\* a 64-byte user key was stored and read back under the same session key
C21_Witness ==
  /\ ReadBack
  /\ ret.ok
  /\ Len(FromBase64(ret.value)) = 64
  /\ ret.value = given.userKey
  /\ dataJson.file
  /\ StorageKey(ret.userId) \in DOMAIN dataJson.entries

\* ------------------------------------------------------------------ C28
\* the entries of data.json d, none when there is no file
EntriesOf(d) == IF d.file THEN d.entries ELSE << >>

\* the entries of d other than the one with key k
Except(d, k) == WithoutEntry(EntriesOf(d), k)

\* C28: storeUserKeyForSession changes the entry
\* '__PROTECTED__' + userId + '_user_auto' alone and clearStoredUserKey removes
\* that entry alone, every other entry of data.json staying as it was; with a
\* session key that does not decode to 64 bytes storeUserKeyForSession throws
\* and leaves data.json as it was
C28_StorageFrame ==
  [][/\ ret'.op = "store" =>
          IF Len(FromBase64(ret'.sessionKey)) = SESSION_KEY_LENGTH
          THEN /\ ret'.ok
               /\ StorageKey(ret'.userId) \in DOMAIN EntriesOf(dataJson')
               /\ Except(dataJson', StorageKey(ret'.userId))
                    = Except(dataJson, StorageKey(ret'.userId))
          ELSE /\ ~ret'.ok
               /\ ret'.value = ErrSessionKey
               /\ dataJson' = dataJson
     /\ ret'.op = "clear" =>
          /\ StorageKey(ret'.userId) \notin DOMAIN EntriesOf(dataJson')
          /\ Except(dataJson', StorageKey(ret'.userId))
               = Except(dataJson, StorageKey(ret'.userId))
     /\ ret'.op \in {"extract", "message"} => dataJson' = dataJson]_vars

\* the user key of one user was removed from a file that holds the user key
\* of the other user and an entry of bw
C28_Witness ==
  /\ ret.op = "clear"
  /\ \E u \in UserIds \ {ret.userId} :
       StorageKey(u) \in DOMAIN EntriesOf(dataJson)
  /\ ActiveAccount \in DOMAIN EntriesOf(dataJson)
  /\ StorageKey(ret.userId) \notin DOMAIN EntriesOf(dataJson)
  /\ written[ret.userId] = NotWritten

\* ------------------------------------------------------------ C22 .. C25
\* args[0] === "unlock"
IsUnlock == Len(args) > 0 /\ args[1] = "unlock"

\* nothing was done towards a biometric unlock: attemptBiometricUnlock was
\* not called, no socket was created, no message written, no session key
\* stored
NoBiometrics ==
  /\ ~attempt.called
  /\ \A s \in Socks : sock[s] = "unused"
  /\ sent = {}
  /\ numCalls = 0
  /\ ret = NoRet
  /\ \A u \in UserIds : StorageKey(u) \notin DOMAIN EntriesOf(dataJson)

\* bw was run with the arguments of main() and the environment of the
\* process, without a session key of this run
Delegated ==
  /\ bw.spawned
  /\ bw.args = args
  /\ bw.session = << >>
  /\ bw.env.BW_SESSION = processEnv.BW_SESSION

\* the version was printed and bw was not run
PrintedVersion == ~bw.spawned /\ stdout = << Version >>

NoAttemptAsked ==
  \/ processEnv.BW_NOINTERACTION
  \/ Includes(args, "--nointeraction")
  \/ \E f \in {"--help", "-h", "--version", "-v", "--bwbio-version"} :
       Includes(args, f)

NamedPassthrough(a) ==
  \/ Len(a) = 0
  \/ a[1] \in {"login", "logout", "lock", "config", "update", "completion",
               "status", "serve"}
  \/ \E i \in 1 .. Len(a) : a[i] \in {"--help", "-h", "--version", "-v"}

StoredUnder(K) ==
  /\ ret = [op |-> "store", userId |-> attempt.userId, sessionKey |-> K,
            ok |-> TRUE, value |-> << >>]
  /\ written[attempt.userId] =
       [userKey |-> attempt.userKeyB64, sessionKey |-> K]
  /\ StorageKey(attempt.userId) \in DOMAIN EntriesOf(dataJson)

\* bw was run with a session key of this run
WithSession == bw.spawned /\ bw.session # << >>

\* after a failed attempt: bw runs with the arguments as they were, without
\* a new session key, and nothing was stored
FellBack ==
  /\ Delegated
  /\ stdout = << >>
  /\ ret = NoRet
  /\ \A u \in UserIds : StorageKey(u) \notin DOMAIN EntriesOf(dataJson)

Quiescent ==
  /\ ~inChunk
  /\ ~MicroReady
  /\ mainPc # "start"
  /\ conn.state = "idle"
  /\ \A c \in Calls : ~timer[c] /\ ~hsTimer[c]
  /\ \A s \in Socks : sock[s] \in {"unused", "closed"}

\* C26: it never blocks; once the timers have fired and the connection is
\* closed, every callCommand has resolved or rejected,
\* attemptBiometricUnlock has returned and main() has delegated to bw or
\* printed
C26_NeverBlocks ==
  Quiescent =>
     /\ \A c \in 0 .. (numCalls - 1) : Returns(c)
     /\ attempt.called => attempt.returned
     /\ mainPc = "done"

\* ------------------------------------------------------------------ C29
\* the client was connected and has torn down: the handlers of a successful
\* connect() are registered, and the client is neither connected nor
\* connecting
TornDownClient ==
  /\ disconnectHandler
  /\ ~connected
  /\ ~connecting

\* this step creates a socket
OpensConnection ==
  \E s \in Socks : sock[s] = "unused" /\ sock'[s] = "connecting"

\* this step writes a setupEncryption request
StartsHandshake == SetupsSent' # SetupsSent

\* this step is a call of the application: callCommand() or connect() up to
\* its first await
CallerStep ==
  \/ numCalls' = numCalls + 1
  \/ conn.state = "idle" /\ conn'.state # "idle" /\ conn'.owner = AppOwner

OnChannel(c) == env[c] # NoSecret

\* this step destroys the channel
ChannelDestroyed ==
  /\ secureChannel # NullChannel
  /\ secureChannel' = NullChannel

\* this step is a send whose postMessage throws
SendFailure ==
  /\ ~SocketUsable
  /\ \/ callCommand
     \/ \E c \in Calls : SendAfterConnect(c) \/ PostCommand(c)

\* C30 as written: in no state between events is the shared secret cleared
\* while a call issued on the channel is still in the pending-call map
C30_TornDownTogether ==
  \A c \in Calls :
    (Pending(c) /\ OnChannel(c)) => secureChannel.secret # NoSecret

\* C30: a disconnect event, an invalidateEncryption and a wrongUserId message
\* destroy the channel and empty the pending-call map in one step, rejecting
\* every pending call; an explicit disconnect() destroys the channel and
\* leaves the map as it is, and a send failure destroys the channel and
\* removes the failing call only; a step that rejects calls with a teardown
\* error leaves no channel
C30_HandlersTearDownTogether ==
  [][/\ (ChannelDestroyed /\ ~disconnect /\ ~SendFailure) =>
          /\ callbacks' = EmptyMap
          /\ \A c \in Calls :
                Pending(c) => outcome'[c].rejected = outcome[c].rejected + 1
     /\ disconnect => callbacks' = callbacks
     /\ SendFailure =>
          \A c \in Calls :
            (Pending(c) /\ pc'[c] = pc[c]) => c \in MapValues(callbacks')
     /\ (\E c \in Calls :
           /\ outcome'[c].rejected > outcome[c].rejected
           /\ outcome'[c].err \in {ErrDisconnected, ErrInvalidated,
                                   ErrWrongUser}) =>
          /\ secureChannel' = NullChannel
          /\ callbacks' = EmptyMap]_vars

\* both calls were issued on the channel and were rejected together by an
\* invalidateEncryption message that destroyed the channel
C30_Witness ==
  /\ secureChannel = NullChannel
  /\ callbacks = EmptyMap
  /\ \A c \in Calls :
        /\ OnChannel(c)
        /\ outcome[c].rejected = 1
        /\ outcome[c].err = ErrInvalidated

\* ------------------------------------------------------------------ C31
\* a handshake is pending: the setupEncryption request was sent and no
\* shared secret is installed yet
HandshakePending ==
  /\ secureChannel.present
  /\ secureChannel.secret = NoSecret
  /\ hs[secureChannel.hs] = "pending"

\* C31: a step that destroys the channel while a handshake is pending
\* (connection lost, explicit disconnect(), invalidateEncryption,
\* wrongUserId) rejects the handshake waiter
C31_DestroyRejectsWaiter ==
  [][(HandshakePending /\ secureChannel' = NullChannel) =>
        hs'[secureChannel.hs] = "rejected"]_vars

\* ------------------------------------------------------------------ C32
\* the calls waiting on a handshake whose request was sent and not answered
Handshaking == {c \in Calls : hs[c] = "pending"}

\* C32: the handshake is one-time per channel; while the connection is up,
\* at most one setupEncryption request is outstanding and at most one key
\* pair was generated for it, however many calls were issued without a
\* shared secret installed
C32_OneHandshake ==
  (connected /\ SocketUsable) =>
     /\ Cardinality(Handshaking) <= 1
     /\ Cardinality({m.key : m \in {x \in SetupsSent : x.key \in Handshaking}})
           <= 1

\* ------------------------------------------------------------------ C33
\* the connections that were established
Established == {s \in Socks : lifecycle[s].established}

C34_SecretIs64Bytes ==
  (ret.op = "setupEncryption" /\ ret.ok) =>
     Len(FromBase64(ret.value)) = AES_KEY_LENGTH + HMAC_LENGTH

\* ------------------------------------------------------------------ C35
\* C35: a verifyDesktopIPCFingerprint message displays, when a channel
\* exists, the phrase getFingerprint derives from this instance's appId and
\* the channel's public key, and displays nothing without a channel; it
\* changes no protocol state
C35_ShowsFingerprint ==
  [][KindOf(frame') = "verifyDesktopIPCFingerprint" =>
       /\ log' = IF secureChannel.present THEN getFingerprint ELSE LogNone
       /\ UNCHANGED << secureChannel, callbacks, connected, outcome, timer,
                       hs, socket, sock >>]_vars

\* ------------------------------------------------------------------ C36
\* C36: attemptBiometricUnlock starts the unlock call only after the status
\* call on the same client resolved with a status equal to Available; it
\* reports success only if the unlock call resolved with an affirmative
\* response that carried a user key, which is the key it returns: after any
\* other status, a denial, a missing key or a rejected call success is
\* false; and the step on which it returns, once the client was created,
\* leaves the client disconnected: not connected, no socket, no channel.
C36_UnlockOnlyIfAvailable ==
  /\ [](/\ pc[1] # "idle" =>
             /\ outcome[0].resolved > 0
             /\ answer.hasStatus
             /\ answer.userStatus = Available
        /\ attempt.success =>
             /\ attempt.returned
             /\ pc[1] = "done"
             /\ outcome[1].resolved > 0
             /\ answer.hasKey
             /\ answer.userKey # << >>
             /\ attempt.userKeyB64 = answer.userKey
        /\ (attempt.returned /\ attempt.userId # "") =>
             (attempt.success <=>
                /\ answer.hasStatus
                /\ answer.userStatus = Available
                /\ answer.hasKey
                /\ answer.userKey # << >>))
  /\ [][(~attempt.returned /\ attempt'.returned /\ attempt'.userId # "") =>
          /\ ~connected'
          /\ socket' = NoSock
          /\ secureChannel' = NullChannel]_vars

\* the attempt succeeded: the status was Available, the unlock response
\* carried the user key, and the client is disconnected
C36_Witness ==
  /\ attempt.success
  /\ answer.userStatus = Available
  /\ answer.userKey = given.userKey
  /\ pc[1] = "done"
  /\ ~connected
  /\ socket = NoSock

\* the attempt failed after a status other than Available: no unlock call
\* was made, and the client is disconnected
C36_WitnessUnavailable ==
  /\ attempt.returned
  /\ ~attempt.success
  /\ answer.hasStatus
  /\ answer.userStatus # Available
  /\ pc[1] = "idle"
  /\ ~connected
  /\ socket = NoSock

\* ------------------------------------------------------------------ C37
\* the close event of socket s fires on this step
ClosesOn(s) == sock[s] = "destroyed" /\ sock'[s] = "closed"

\* C37: the close event of a socket that is not the current connection (a
\* failed earlier candidate, or the socket of a connection that was torn
\* down before the client connected again) leaves the current connection as
\* it is: the socket reference, the receive buffer, the connected flag, the
\* channel and the pending calls with their outcomes do not change.
C37_StaleCloseHarmless ==
  [][\A s \in Socks :
       (ClosesOn(s) /\ socket # NoSock /\ socket # s) =>
          /\ socket' = socket
          /\ UNCHANGED << connected, secureChannel, callbacks, outcome,
                          timer, inChunk >>]_vars

\* ------------------------------------------------------------------ C38
\* the command of call c is written to the transport on this step
Transmits(c) == Command(c) \notin sent /\ Command(c) \in sent'

\* C38: the command of a call is written to the transport only while the
\* call is still in the pending map: once its deadline timer fired or a
\* teardown rejected it, also while callCommand was waiting for the
\* handshake, its command is not written any more.
C38_SentOnlyWhilePending ==
  [][\A c \in Calls : Transmits(c) => Pending(c)]_vars

\* ------------------------------------------------------------------ C39
\* a connect() call returns without throwing on this step: the call of the
\* application returns at its guard, the connect() in progress returns
\* after ipcSocket.connect() resolved, or the connect() awaited by send()
\* of a call returns either way
ConnectSucceeds ==
  \/ Connect /\ ConnectReturnsEarly
  \/ ConnectReturn /\ conn.state = "ipcOk"
  \/ \E c \in Calls : pc[c] \in {"idle", "connWait"} /\ pc'[c] = "connOk"

\* C39: whenever a connect() call returns successfully the client is
\* connected: the flag is set, the transport has an open socket, and the
\* message and disconnect handlers are registered; also when the call was
\* made while another connect() was in progress.
C39_ConnectedOnReturn ==
  [][ConnectSucceeds =>
        /\ connected'
        /\ socket' # NoSock
        /\ sock'[socket'] = "open"
        /\ messageHandler'
        /\ disconnectHandler']_vars

\* ------------------------------------------------------------------ C40
\* C40: once a shared secret is installed it stays the same until the
\* channel is torn down: no step, a further setupEncryption message in
\* particular, replaces an installed secret by another one, and a command
\* is encrypted with the secret installed when it is written.
C40_SecretStable ==
  /\ [][secureChannel.secret # NoSecret =>
          \/ secureChannel'.secret = secureChannel.secret
          \/ secureChannel' = NullChannel]_vars
  /\ [][\A c \in Calls :
          Transmits(c) => /\ env[c] # NoSecret
                          /\ env[c] = secureChannel.secret]_vars

====
